---------------------------- MODULE Spec2Model ----------------------------
(***************************************************************************)
(* A model of the secure grading subsystem of oi-coding-template-v5:       *)
(*   - the Grading Runner   (src/src/hud_controller/oi_grading_runner.py)  *)
(*   - the Verdict Service  (src/src/hud_controller/grading_server.py)     *)
(*   - the checkers         (src/src/hud_controller/checkers.py)           *)
(*                                                                         *)
(* Spec      is one grading pass of OIGradingRunner.run_grading; the       *)
(*           answers of the Verdict Service and the outcomes of the        *)
(*           compiler and of the candidate process are inputs.             *)
(* SpecGrade is the Verdict Service answering POST /grade requests over    *)
(*           stored test data.                                             *)
(* SpecNorm  is output normalisation applied to texts.                     *)
(* SpecServe is the Verdict Service handling list_tests and grade requests *)
(*           in concurrent threads.                                        *)
(* SpecCheck is the checkers called with stored tests and candidate        *)
(*           outputs, and the interval counter called with interval lists. *)
(* SpecPath  is the files a grade request reads for ids of any spelling.   *)
(***************************************************************************)
EXTENDS Integers, Sequences, FiniteSets, TLC

VARIABLES
    env,           \* runner side: the files the runner can see
    pc,            \* position of run_grading
    language,      \* run_grading's local `language`
    test_cases,    \* run_grading's local `test_cases`
    idx,           \* position of the for loop over test_cases (1-based)
    cur,           \* the candidate run in progress (CandidateRun)
    test_results,  \* run_grading's local `test_results`
    passed,        \* run_grading's local `passed`
    result,        \* what run_grading returned (GradingResult) or raised
    trace,         \* history: every external effect of the pass, in order
    store,         \* service side: the protected test data
    request,       \* service side: the last POST /grade body
    response       \* service side: the answer to it

vars == <<env, pc, language, test_cases, idx, cur, test_results, passed,
          result, trace, store, request, response>>

runnerVars == <<env, pc, language, test_cases, idx, cur, test_results, passed,
                result, trace>>

serviceVars == <<store, request, response>>

-----------------------------------------------------------------------------
(* Bounds of the model.                                                    *)

\* the longest list of test ids a grading pass enumerates
MaxTests == 2

\* time_limit_seconds, the default of OIGradingRunner.__init__
time_limit_seconds == 2

-----------------------------------------------------------------------------
(* Small helpers over sequences.                                           *)

Max2(a, b) == IF a >= b THEN a ELSE b

Min2(a, b) == IF a <= b THEN a ELSE b

Abs(a) == IF a >= 0 THEN a ELSE -a

-----------------------------------------------------------------------------
(* Test ids are file stems: sequences of characters.  A character is a     *)
(* one-character string; CharRank is its code point order.                 *)

DigitChars == <<"0", "1", "2", "3", "4", "5", "6", "7", "8", "9">>

\* a character str.isdigit() accepts and int() rejects (superscript two)
SuperTwo == "sup2"

LetterChars == <<"a", "b", "c">>

IsAsciiDigit(c) == \E i \in 1..Len(DigitChars) : DigitChars[i] = c

DigitVal(c) == (CHOOSE i \in 1..Len(DigitChars) : DigitChars[i] = c) - 1

CharRank(c) ==
    IF IsAsciiDigit(c) THEN 48 + DigitVal(c)
    ELSE IF c = SuperTwo THEN 178
    ELSE 96 + (CHOOSE i \in 1..Len(LetterChars) : LetterChars[i] = c)

\* str.isdigit(): non-empty and every character a (Unicode) digit
isdigit(x) == Len(x) > 0 /\ \A i \in 1..Len(x) : IsAsciiDigit(x[i]) \/ x[i] = SuperTwo

\* int(x) raises ValueError on a digit that is not a decimal digit
IntRaises(x) == \E i \in 1..Len(x) : ~IsAsciiDigit(x[i])

RECURSIVE IntVal(_)
IntVal(x) == IF Len(x) = 0 THEN 0
             ELSE 10 * IntVal(SubSeq(x, 1, Len(x) - 1)) + DigitVal(x[Len(x)])

\* Python's < on str: lexicographic by code point
RECURSIVE StrLess(_, _)
StrLess(a, b) ==
    IF Len(b) = 0 THEN FALSE
    ELSE IF Len(a) = 0 THEN TRUE
    ELSE IF CharRank(a[1]) # CharRank(b[1]) THEN CharRank(a[1]) < CharRank(b[1])
    ELSE StrLess(Tail(a), Tail(b))

\* the sort key  (0, int(x)) if x.isdigit() else (1, x)
KeyLess(a, b) ==
    IF isdigit(a) /\ isdigit(b) THEN IntVal(a) < IntVal(b)
    ELSE IF isdigit(a) THEN TRUE
    ELSE IF isdigit(b) THEN FALSE
    ELSE StrLess(a, b)

RECURSIVE SortBy(_, _)
SortBy(S, numeric) ==
    IF S = {} THEN <<>>
    ELSE LET m == CHOOSE a \in S : \A b \in S \ {a} :
                      IF numeric THEN KeyLess(a, b) ELSE StrLess(a, b)
         IN  <<m>> \o SortBy(S \ {m}, numeric)

\* tests.sort(key=...) with the fallback tests.sort() on ValueError
SortIds(S) ==
    IF \E x \in S : isdigit(x) /\ IntRaises(x) THEN SortBy(S, FALSE)
    ELSE SortBy(S, TRUE)

\* the ids that occur as test files in this model: "2", "10", "a"
IdUniverse == { <<"2">>, <<"1", "0">>, <<"a">> }

IdSets == {S \in SUBSET IdUniverse : Cardinality(S) <= MaxTests}


-----------------------------------------------------------------------------
(* Output normalisation, character by character.  A text is a sequence of  *)
(* one-character strings.                                                  *)

LF == "\n"

CR == "\r"

\* the characters str.rstrip() removes that occur in this model
Whitespace == {" ", "\t", CR, LF}

\* output.replace("\r\n", "\n")
RECURSIVE ReplaceCRLF(_)
ReplaceCRLF(s) ==
    IF Len(s) = 0 THEN <<>>
    ELSE IF Len(s) >= 2 /\ s[1] = CR /\ s[2] = LF
         THEN <<LF>> \o ReplaceCRLF(SubSeq(s, 3, Len(s)))
         ELSE <<s[1]>> \o ReplaceCRLF(Tail(s))

\* s.split("\n"): always at least one line
RECURSIVE SplitLF(_)
SplitLF(s) ==
    IF \A i \in 1..Len(s) : s[i] # LF THEN <<s>>
    ELSE LET k == CHOOSE i \in 1..Len(s) :
                      s[i] = LF /\ \A j \in 1..(i - 1) : s[j] # LF
         IN  <<SubSeq(s, 1, k - 1)>> \o SplitLF(SubSeq(s, k + 1, Len(s)))

\* a right-trim that removes one trailing whitespace character only
rstrip_once(line) ==
    IF Len(line) > 0 /\ line[Len(line)] \in Whitespace
    THEN SubSeq(line, 1, Len(line) - 1)
    ELSE line

\* line.rstrip()
RECURSIVE rstrip(_)
rstrip(line) ==
    IF Len(line) > 0 /\ line[Len(line)] \in Whitespace
    THEN rstrip(SubSeq(line, 1, Len(line) - 1))
    ELSE line

\* while lines and not lines[-1]: lines.pop()
RECURSIVE PopEmpty(_)
PopEmpty(lines) ==
    IF Len(lines) > 0 /\ lines[Len(lines)] = <<>>
    THEN PopEmpty(SubSeq(lines, 1, Len(lines) - 1))
    ELSE lines

\* "\n".join(lines)
RECURSIVE JoinLF(_)
JoinLF(lines) ==
    IF Len(lines) = 0 THEN <<>>
    ELSE IF Len(lines) = 1 THEN lines[1]
    ELSE lines[1] \o <<LF>> \o JoinLF(Tail(lines))

\* OIGradingRunner._normalize_output
_normalize_output(output) ==
    LET lines    == SplitLF(ReplaceCRLF(output))
        stripped == [i \in 1..Len(lines) |-> rstrip(lines[i])]
    IN  JoinLF(PopEmpty(stripped))

\* grading_server.normalize_output
normalize_output(output) ==
    LET lines    == SplitLF(ReplaceCRLF(output))
        stripped == [i \in 1..Len(lines) |-> rstrip(lines[i])]
    IN  JoinLF(PopEmpty(stripped))

\* Path.read_text(): the file is opened in text mode with universal newlines,
\* so "\r\n" and a lone "\r" are read as "\n"
RECURSIVE read_text(_)
read_text(b) ==
    IF Len(b) = 0 THEN <<>>
    ELSE IF b[1] = CR
    THEN <<LF>> \o read_text(IF Len(b) >= 2 /\ b[2] = LF
                             THEN SubSeq(b, 3, Len(b)) ELSE Tail(b))
    ELSE <<b[1]>> \o read_text(Tail(b))

\* grade, lines 146 and 160-165: the expected text the checker is called with
\* for a stored expected-output file of content b
ExpectedGiven(b) == read_text(b)


-----------------------------------------------------------------------------
(* The Grading Runner: data.                                               *)

\* compilation_error: str | None
None == [isNone |-> TRUE, text |-> ""]

Str(t) == [isNone |-> FALSE, text |-> t]

\* a formatted message: the literal part and the interpolated number
Msg(fmt, n) == [fmt |-> fmt, n |-> n]

\* dataclass TestResult
TestResult(test_id, p, status, time_ms, stdout, stderr, message) ==
    [test_id |-> test_id, passed |-> p, status |-> status, time_ms |-> time_ms,
     stdout |-> stdout, stderr |-> stderr, message |-> message]

\* dataclass GradingResult; score is the fraction <<numerator, denominator>>
GradingResult(score, p, total, lang, results, compilation_error) ==
    [score |-> score, passed |-> p, total |-> total, language |-> lang,
     test_results |-> results, compilation_error |-> compilation_error]

\* the float 0.0
Zero == <<0, 1>>

\* no run_grading call has ended yet
NoResult == [ended |-> "no"]

Returned(r) == [ended |-> "returned", value |-> r]

Raised(e) == [ended |-> "raised", exc |-> e]

\* no candidate run in progress
NoRun == [test_id |-> <<>>, stdout |-> <<>>, stderr |-> "", time_ms |-> 0,
          actual_output |-> <<>>]

-----------------------------------------------------------------------------
(* What the runner sees of the world.                                      *)

\* {workdir}/{problem_id}.cpp and .py, and {problems_dir}/{problem_id}/input
Envs ==
    { [cpp |-> c, py |-> p, input_dir |-> d, files |-> f] :
        c \in BOOLEAN, p \in BOOLEAN, d \in {"missing", "unreadable", "ok"},
        f \in IdSets }

EnvOk(e) == e.input_dir \in {"missing", "unreadable"} => e.files = {}

\* an answer to GET /list_tests/{problem_id}, or no answer
ListResp(kind, status, body, tests) ==
    [kind |-> kind, status |-> status, body |-> body, tests |-> tests]

ListResponses ==
    { ListResp("conn_error", 0, "none", <<>>),
      ListResp("timeout", 0, "none", <<>>),
      ListResp("http", 404, "object_no_tests", <<>>),
      ListResp("http", 200, "object_no_tests", <<>>),
      ListResp("http", 200, "object_tests_scalar", <<>>),
      ListResp("http", 200, "not_object", <<>>),
      ListResp("http", 200, "undecodable", <<>>) }
    \cup { ListResp("http", 200, "object", SortIds(S)) : S \in IdSets }

\* an answer to POST /grade, or no answer
GradeResp(kind, status, ctype_json, body, p, message) ==
    [kind |-> kind, status |-> status, ctype_json |-> ctype_json, body |-> body,
     passed |-> p, message |-> message]

GradeResponses ==
    { GradeResp("conn_error", 0, FALSE, "none", "absent", "absent"),
      GradeResp("timeout", 0, FALSE, "none", "absent", "absent"),
      GradeResp("http", 200, TRUE, "object", "true", "OK"),
      GradeResp("http", 200, TRUE, "object", "false", "Line count mismatch"),
      GradeResp("http", 200, TRUE, "object", "absent", "absent"),
      GradeResp("http", 200, TRUE, "undecodable", "absent", "absent"),
      GradeResp("http", 200, TRUE, "not_object", "absent", "absent"),
      GradeResp("http", 404, TRUE, "object", "false", "Test case not found"),
      GradeResp("http", 502, FALSE, "undecodable", "absent", "absent"),
      GradeResp("http", 500, TRUE, "undecodable", "absent", "absent") }

\* the outcomes of the g++ subprocess
CompileOutcomes ==
    { [kind |-> "exit", rc |-> 0, stderr |-> ""],
      [kind |-> "exit", rc |-> 1, stderr |-> "error: expected ';'"],
      [kind |-> "exit", rc |-> 1, stderr |-> ""],
      [kind |-> "timeout", rc |-> 0, stderr |-> ""],
      [kind |-> "oserror", rc |-> 0, stderr |-> ""] }

\* the raw stdout of a candidate: "a \r\n\n" and ""
Stdouts == { <<"a", " ", CR, LF, LF>>, <<>> }

\* the outcomes of the candidate subprocess once started
RunOutcomes ==
    { [kind |-> "timeout", rc |-> 0, stdout |-> <<>>, stderr |-> "", time_ms |-> 0] }
    \cup { [kind |-> "exit", rc |-> rc, stdout |-> <<"a">>, stderr |-> "Traceback",
            time_ms |-> 12] : rc \in {1, -11} }
    \cup { [kind |-> "exit", rc |-> 0, stdout |-> o, stderr |-> "", time_ms |-> 12] :
            o \in Stdouts }

\* an event of the history
NoResp == GradeResp("none", 0, FALSE, "none", "absent", "absent")

NoOut == [kind |-> "none", rc |-> 0, stderr |-> ""]

Event(ev, test_id, resp) ==
    [ev |-> ev, test_id |-> test_id, resp |-> resp, out |-> NoOut]

CompileEvent(o) ==
    [ev |-> "compile", test_id |-> <<>>, resp |-> NoResp, out |-> o]

\* the candidate process of test_id ended with outcome o
ExitEvent(test_id, o) ==
    [ev |-> "exit", test_id |-> test_id, resp |-> NoResp,
     out |-> [kind |-> o.kind, rc |-> o.rc, stderr |-> o.stderr]]


-----------------------------------------------------------------------------
(* The Grading Runner: the methods of OIGradingRunner.                     *)

\* _detect_solution: (found, language), C++ preferred
_detect_solution(e) ==
    IF e.cpp THEN [found |-> TRUE, language |-> "cpp"]
    ELSE IF e.py THEN [found |-> TRUE, language |-> "python"]
    ELSE [found |-> FALSE, language |-> ""]

\* _compile_cpp taking a compile timeout for a success
_compile_cpp_timeout_ok(o) ==
    IF o.kind = "exit"
    THEN IF o.rc # 0 THEN [success |-> FALSE, error |-> o.stderr]
         ELSE [success |-> TRUE, error |-> ""]
    ELSE IF o.kind = "timeout"
    THEN [success |-> TRUE, error |-> ""]
    ELSE [success |-> FALSE, error |-> "[Errno 2] No such file or directory: 'g++'"]

\* _compile_cpp: (success, error_message)
_compile_cpp(o) ==
    IF o.kind = "exit"
    THEN IF o.rc # 0 THEN [success |-> FALSE, error |-> o.stderr]
         ELSE [success |-> TRUE, error |-> ""]
    ELSE IF o.kind = "timeout"
    THEN [success |-> FALSE, error |-> "Compilation timed out (>60s)"]
    ELSE [success |-> FALSE, error |-> "[Errno 2] No such file or directory: 'g++'"]

\* what a method hands back: a value, or the exception that leaves it
Value(v) == [exc |-> "none", value |-> v, scalar |-> FALSE]

Throws(e) == [exc |-> e, value |-> <<>>, scalar |-> FALSE]

\* _get_test_cases_from_api.  response.json() on an undecodable body raises
\* requests.JSONDecodeError, a RequestException since requests 2.27 and a
\* plain ValueError before: decodeCaught tells which library is installed.
_get_test_cases_from_api(r, decodeCaught) ==
    IF r.kind # "http" THEN Value(<<>>)
    ELSE IF r.status # 200 THEN Value(<<>>)
    ELSE IF r.body = "undecodable"
         THEN IF decodeCaught THEN Value(<<>>) ELSE Throws("ValueError")
    ELSE IF r.body = "not_object" THEN Throws("AttributeError")
    ELSE IF r.body = "object_no_tests" THEN Value(<<>>)
    ELSE IF r.body = "object_tests_scalar"
         THEN [exc |-> "none", value |-> <<>>, scalar |-> TRUE]
    ELSE Value(r.tests)

\* _get_test_cases_local: iterdir() raises on a directory that cannot be listed
_get_test_cases_local(e) ==
    IF e.input_dir = "missing" THEN Value(<<>>)
    ELSE IF e.input_dir = "unreadable" THEN Throws("PermissionError")
    ELSE Value(SortIds(e.files))

\* the ids taken from the local directory whatever the service answered
_get_test_cases_local_only(e, r, decodeCaught) == _get_test_cases_local(e)

\* _get_test_cases: the API first, the local scan when it gave nothing
_get_test_cases(e, r, decodeCaught) ==
    LET api == _get_test_cases_from_api(r, decodeCaught)
    IN  IF api.exc # "none" THEN api
        ELSE IF api.scalar \/ Len(api.value) > 0 THEN api
        ELSE _get_test_cases_local(e)

\* did _get_test_cases reach the local scan?
UsedLocalScan(r, decodeCaught) ==
    LET api == _get_test_cases_from_api(r, decodeCaught)
    IN  api.exc = "none" /\ ~api.scalar /\ Len(api.value) = 0

\* the service answered 200 with a list of at least one test id
Usable(r) ==
    r.kind = "http" /\ r.status = 200 /\ r.body = "object" /\ Len(r.tests) > 0

\* what the history keeps of the answer to GET /list_tests: the answer when
\* it holds test ids, and otherwise only that it held none
ListSeen(r) == IF Usable(r) THEN r ELSE ListResp("unusable", 0, "none", <<>>)

\* lines 244-246: except requests.RequestException
RequestFailed ==
    [exc |-> "none", passed |-> FALSE, message |-> Msg("Grading server error", 0)]

\* response.json(): the exception it raises on this body, "none" if it returns
JsonRaises(r, decodeCaught) ==
    IF r.body = "undecodable"
    THEN IF decodeCaught THEN "RequestException" ELSE "ValueError"
    ELSE "none"

\* lines 237-242: a response arrived; (passed, message), or the exception that
\* leaves _grade_via_api
HttpVerdict(r, decodeCaught) ==
    IF r.status # 200 /\ ~r.ctype_json
    THEN [exc |-> "none", passed |-> FALSE, message |-> Msg("API error", r.status)]
    ELSE IF JsonRaises(r, decodeCaught) = "RequestException" THEN RequestFailed
    ELSE IF JsonRaises(r, decodeCaught) = "ValueError"
    THEN [exc |-> "ValueError", passed |-> FALSE, message |-> Msg("Expecting value", 0)]
    ELSE IF r.body = "not_object"
    THEN [exc |-> "AttributeError", passed |-> FALSE,
          message |-> Msg("object has no attribute 'get'", 0)]
    ELSE IF r.status = 200
    THEN [exc |-> "none",
          passed |-> (r.passed = "true"),
          message |-> IF r.message = "absent" THEN Msg("", 0) ELSE Msg(r.message, 0)]
    ELSE [exc |-> "none", passed |-> FALSE,
          message |-> IF r.message = "absent" THEN Msg("API error", r.status)
                      ELSE Msg(r.message, 0)]

\* _grade_via_api answering success when the service cannot be reached
_grade_via_api_failopen(r, decodeCaught) ==
    IF r.kind # "http"
    THEN [exc |-> "none", passed |-> TRUE, message |-> Msg("Grading server error", 0)]
    ELSE HttpVerdict(r, decodeCaught)

\* _grade_via_api reading  data.get("passed", True)
_grade_via_api_default_true(r, decodeCaught) ==
    IF r.kind # "http" THEN RequestFailed
    ELSE IF r.status = 200 /\ r.body = "object" /\ r.passed = "absent"
    THEN [exc |-> "none", passed |-> TRUE, message |-> Msg("", 0)]
    ELSE HttpVerdict(r, decodeCaught)

\* _grade_via_api: (passed, message), or the exception that leaves it
_grade_via_api(r, decodeCaught) ==
    IF r.kind # "http" THEN RequestFailed ELSE HttpVerdict(r, decodeCaught)

\* _run_test_case reporting an exception of the verdict lookup under a status
\* of its own, "IE"
VerdictResult_internal_error(run, g) ==
    IF g.exc # "none"
    THEN TestResult(run.test_id, FALSE, "IE", 0, <<>>, g.message.fmt, g.message)
    ELSE IF g.passed
    THEN TestResult(run.test_id, TRUE, "AC", run.time_ms, run.stdout, run.stderr,
                    g.message)
    ELSE TestResult(run.test_id, FALSE, "WA", run.time_ms, run.stdout, run.stderr,
                    g.message)

\* the TestResult _run_test_case builds from the verdict lookup
VerdictResult(run, g) ==
    IF g.exc # "none"
    THEN TestResult(run.test_id, FALSE, "RE", 0, <<>>, g.message.fmt, g.message)
    ELSE IF g.passed
    THEN TestResult(run.test_id, TRUE, "AC", run.time_ms, run.stdout, run.stderr,
                    g.message)
    ELSE TestResult(run.test_id, FALSE, "WA", run.time_ms, run.stdout, run.stderr,
                    g.message)

\* input_file.exists()
InputExists(e, test_id) == e.input_dir # "missing" /\ test_id \in e.files


-----------------------------------------------------------------------------
(* The Grading Runner: run_grading, one action per step.                   *)

\* return GradingResult(...)
Return(r) ==
    /\ result' = Returned(r)
    /\ pc' = "done"

\* the loop body leaving the loop after a test that ran out of time
AppendResult_break(r) ==
    /\ test_results' = Append(test_results, r)
    /\ passed' = IF r.passed THEN passed + 1 ELSE passed
    /\ idx' = IF r.status = "TLE" THEN Len(test_cases) + 1 ELSE idx + 1
    /\ cur' = NoRun
    /\ pc' = "loop"

\* test_results.append(result); if result.passed: passed += 1
AppendResult(r) ==
    /\ test_results' = Append(test_results, r)
    /\ passed' = IF r.passed THEN passed + 1 ELSE passed
    /\ idx' = idx + 1
    /\ cur' = NoRun
    /\ pc' = "loop"

\* lines 366-380: detect the solution
DetectSolution ==
    /\ pc = "detect"
    /\ LET d == _detect_solution(env)
       IN  IF ~d.found
           THEN /\ Return(GradingResult(Zero, 0, 0, "unknown", <<>>,
                                        Str("No solution file found")))
                /\ UNCHANGED language
           ELSE /\ language' = d.language
                /\ pc' = IF d.language = "cpp" THEN "compile" ELSE "enumerate"
                /\ UNCHANGED result
    /\ UNCHANGED <<env, test_cases, idx, cur, test_results, passed, trace>>
    /\ UNCHANGED serviceVars

\* lines 382-398: compile if C++
CompileCpp ==
    /\ pc = "compile"
    /\ \E o \in CompileOutcomes :
          /\ LET c == _compile_cpp(o)
             IN  IF ~c.success
                 THEN Return(GradingResult(Zero, 0, 0, language, <<>>, Str(c.error)))
                 ELSE /\ pc' = "enumerate"
                      /\ UNCHANGED result
          /\ trace' = Append(trace, CompileEvent(o))
    /\ UNCHANGED <<env, language, test_cases, idx, cur, test_results, passed>>
    /\ UNCHANGED serviceVars

\* lines 400-417: enumerate the test cases
GetTestCases ==
    /\ pc = "enumerate"
    /\ \E r \in ListResponses, decodeCaught \in BOOLEAN :
          LET t == _get_test_cases(env, r, decodeCaught)
              h == IF UsedLocalScan(r, decodeCaught)
                   THEN <<Event("list_tests", <<>>, ListSeen(r)),
                          Event("scan_local", <<>>, NoResp)>>
                   ELSE <<Event("list_tests", <<>>, ListSeen(r))>>
          IN  /\ trace' = trace \o h
              /\ IF t.exc # "none"
                 THEN /\ result' = Raised(t.exc)
                      /\ pc' = "raised"
                      /\ UNCHANGED test_cases
                 ELSE IF t.scalar
                 THEN \* len(test_cases) on a number: TypeError at line 413
                      /\ result' = Raised("TypeError")
                      /\ pc' = "raised"
                      /\ UNCHANGED test_cases
                 ELSE IF Len(t.value) = 0
                 THEN /\ Return(GradingResult(Zero, 0, 0, language, <<>>,
                                              Str("No test cases found for problem")))
                      /\ UNCHANGED test_cases
                 ELSE /\ test_cases' = t.value
                      /\ pc' = "loop"
                      /\ UNCHANGED result
    /\ UNCHANGED <<env, language, idx, cur, test_results, passed>>
    /\ UNCHANGED serviceVars

\* lines 260-294: _run_test_case up to the start of the candidate process
BeginTest ==
    /\ pc = "loop"
    /\ idx <= Len(test_cases)
    /\ LET test_id == test_cases[idx]
       IN  IF ~InputExists(env, test_id)
           THEN /\ AppendResult(TestResult(test_id, FALSE, "RE", 0, <<>>,
                                           "Input file not found: path",
                                           Msg("Input file not found", 0)))
                /\ UNCHANGED trace
           ELSE \E started \in BOOLEAN :
                  IF ~started
                  THEN \* open() or subprocess.run() raises: except Exception
                       /\ AppendResult(TestResult(test_id, FALSE, "RE", 0, <<>>,
                                                  "[Errno 2] No such file or directory",
                                                  Msg("[Errno 2] No such file or directory", 0)))
                       /\ trace' = Append(trace, Event("spawn_failed", test_id, NoResp))
                  ELSE /\ cur' = [NoRun EXCEPT !.test_id = test_id]
                       /\ pc' = "running"
                       /\ trace' = Append(trace, Event("spawn", test_id, NoResp))
                       /\ UNCHANGED <<test_results, passed, idx>>
    /\ UNCHANGED <<env, language, test_cases, result>>
    /\ UNCHANGED serviceVars

\* lines 336-345: except subprocess.TimeoutExpired
TimedOut(o) ==
    /\ AppendResult(TestResult(cur.test_id, FALSE, "TLE",
                               time_limit_seconds * 1000, <<>>,
                               "Time limit exceeded",
                               Msg("Time limit exceeded", 0)))
    /\ trace' = Append(trace, ExitEvent(cur.test_id, o))

\* the loop going on to the next test while the grade request is in flight
AwaitVerdict_async(o) ==
    /\ cur' = NoRun
    /\ pc' = "loop"
    /\ idx' = idx + 1
    /\ trace' = trace \o <<ExitEvent(cur.test_id, o),
                           Event("grade_request", cur.test_id, NoResp)>>
    /\ UNCHANGED <<test_results, passed>>

\* lines 309-313: a zero exit code; the output is normalised and the grade
\* request sent
AwaitVerdict(o) ==
    /\ cur' = [test_id |-> cur.test_id, stdout |-> o.stdout,
               stderr |-> o.stderr, time_ms |-> o.time_ms,
               actual_output |-> _normalize_output(o.stdout)]
    /\ pc' = "grading"
    /\ trace' = trace \o <<ExitEvent(cur.test_id, o),
                           Event("grade_request", cur.test_id, NoResp)>>
    /\ UNCHANGED <<test_results, passed, idx>>

\* a non-zero exit code handed to the verdict lookup like a zero one
NonZeroExit_graded(o) == AwaitVerdict(o)

\* lines 298-307: if result.returncode != 0
NonZeroExit(o) ==
    /\ AppendResult(TestResult(cur.test_id, FALSE, "RE", o.time_ms,
                               o.stdout, o.stderr,
                               Msg("Runtime error (exit code)", o.rc)))
    /\ trace' = Append(trace, ExitEvent(cur.test_id, o))

\* lines 295-313 and 336-345: the candidate process ends
CandidateEnds ==
    /\ pc = "running"
    /\ \E o \in RunOutcomes :
          IF o.kind = "timeout" THEN TimedOut(o)
          ELSE IF o.rc # 0 THEN NonZeroExit(o)
          ELSE AwaitVerdict(o)
    /\ UNCHANGED <<env, language, test_cases, result>>
    /\ UNCHANGED serviceVars

\* the verdict lookup sending the grade request once more after a timeout
VerdictArrives_retry ==
    /\ pc = "grading"
    /\ \E r \in GradeResponses, decodeCaught \in BOOLEAN :
          IF /\ r.kind = "timeout"
             /\ Cardinality({j \in 1..Len(trace) :
                                /\ trace[j].ev = "grade_request"
                                /\ trace[j].test_id = cur.test_id}) < 2
          THEN /\ trace' = trace \o <<Event("grade_response", cur.test_id, r),
                                       Event("grade_request", cur.test_id, NoResp)>>
               /\ UNCHANGED <<test_results, passed, idx, cur, pc>>
          ELSE /\ AppendResult(VerdictResult(cur, _grade_via_api(r, decodeCaught)))
               /\ trace' = Append(trace, Event("grade_response", cur.test_id, r))
    /\ UNCHANGED <<env, language, test_cases, result>>
    /\ UNCHANGED serviceVars

\* lines 313-334 and 346-355: the verdict lookup ends
VerdictArrives ==
    /\ pc = "grading"
    /\ \E r \in GradeResponses, decodeCaught \in BOOLEAN :
          /\ AppendResult(VerdictResult(cur, _grade_via_api(r, decodeCaught)))
          /\ trace' = Append(trace, Event("grade_response", cur.test_id, r))
    /\ UNCHANGED <<env, language, test_cases, result>>
    /\ UNCHANGED serviceVars

\* the score by integer division,  passed // total
Score_floordiv(p, total) == IF total > 0 THEN <<p \div total, 1>> ELSE Zero

\* the score  passed / total if total > 0 else 0.0
Score(p, total) == IF total > 0 THEN <<p, total>> ELSE Zero

\* lines 430-441: the loop is over
Finish ==
    /\ pc = "loop"
    /\ idx > Len(test_cases)
    /\ LET total == Len(test_cases)
       IN  Return(GradingResult(Score(passed, total), passed, total, language,
                                test_results, None))
    /\ UNCHANGED <<env, language, test_cases, idx, cur, test_results, passed, trace>>
    /\ UNCHANGED serviceVars

\* the service side is idle during a grading pass of this specification
IdleService ==
    /\ store = <<>>
    /\ request = <<>>
    /\ response = <<>>

Init ==
    /\ env \in {e \in Envs : EnvOk(e)}
    /\ pc = "detect"
    /\ language = ""
    /\ test_cases = <<>>
    /\ idx = 1
    /\ cur = NoRun
    /\ test_results = <<>>
    /\ passed = 0
    /\ result = NoResult
    /\ trace = <<>>
    /\ IdleService

Next ==
    \/ DetectSolution
    \/ CompileCpp
    \/ GetTestCases
    \/ BeginTest
    \/ CandidateEnds
    \/ VerdictArrives
    \/ Finish

Spec == Init /\ [][Next]_vars


-----------------------------------------------------------------------------
(* The checkers: data.  The checkers read a text with strip(), split('\n') *)
(* and split(): a text is modelled as what those leave, a sequence of      *)
(* lines, each a sequence of whitespace-separated tokens.  A token is an   *)
(* integer literal or a word that int() and float() reject.                *)

I(n) == [k |-> "int", v |-> n]

W(n) == [k |-> "word", v |-> n]

\* an interpolated value of a message, with the variable it was taken from:
\* "input" and "expected" are the stored files, "actual" the request,
\* "calc" a count, an index or a value the checker computed
Arg(src, line) == [src |-> src, val |-> line]

Num(src, n) == Arg(src, <<I(n)>>)

\* what a checker hands back: (passed, message), or the exception leaving it
\* with str(e) as message
Verdict(p, fmt, args) ==
    [exc |-> "none", passed |-> p,
     message |-> [fmt |-> fmt, err |-> "", args |-> args]]

\* raise e, with str(e) = err and the values it interpolates
Raise(e, err, args) ==
    [exc |-> e, passed |-> FALSE,
     message |-> [fmt |-> "", err |-> err, args |-> args]]

\* return False, f"Checker error: {str(e)}"
CheckerError(r) ==
    [exc |-> "none", passed |-> FALSE,
     message |-> [fmt |-> "Checker error: {}", err |-> r.message.err,
                  args |-> r.message.args]]

\* s.strip().split('\n'): blank lines at both ends go, one line always stays
RECURSIVE DropLeadingBlank(_)
DropLeadingBlank(t) ==
    IF Len(t) > 0 /\ t[1] = <<>> THEN DropLeadingBlank(Tail(t)) ELSE t

StripSplit(t) ==
    LET u == PopEmpty(DropLeadingBlank(t))
    IN  IF Len(u) = 0 THEN << <<>> >> ELSE u

\* int(line.strip()) succeeds on a line that is one integer literal
IsIntLine(line) == Len(line) = 1 /\ line[1].k = "int"

\* a1, ..., an = map(int, line.split()): the tokens are converted one by one as
\* the unpacking asks for them, and it asks for one more than n
UnpackInts(line, n, src) ==
    LET m   == Min2(Len(line), n + 1)
        bad == {i \in 1..m : line[i].k # "int"}
    IN  IF bad # {}
        THEN LET i == CHOOSE j \in bad : \A l \in bad : j <= l
             IN  Raise("ValueError", "invalid literal for int() with base 10",
                       <<Arg(src, <<line[i]>>)>>)
        ELSE IF Len(line) < n
        THEN Raise("ValueError", "not enough values to unpack",
                   <<Num("calc", n), Num("calc", Len(line))>>)
        ELSE IF Len(line) > n
        THEN Raise("ValueError", "too many values to unpack", <<Num("calc", n)>>)
        ELSE Verdict(TRUE, "", <<>>)

\* rel_tol and abs_tol of _floats_equal, as 1/rel_tol and 1/abs_tol
rel_tol_inv == 1000000

abs_tol_inv == 1000000000

\* _parse_floats: the values of a line of float literals, None otherwise
ParsesAsFloats(line) == \A i \in 1..Len(line) : line[i].k = "int"

\* _floats_equal = math.isclose: |a - b| <= max(rel_tol * max(|a|, |b|), abs_tol),
\* on integer values (d <= x / 10^6 is d <= x \div 10^6 for an integer d)
_floats_equal(a, b) ==
    LET d == Abs(a - b)
    IN  d <= Max2(Max2(Abs(a), Abs(b)) \div rel_tol_inv, 1 \div abs_tol_inv)

\* the first line, and the first token in it, where default_checker stops
FirstBadToken(e, a) ==
    CHOOSE j \in 1..Len(e) :
       /\ ~_floats_equal(e[j].v, a[j].v)
       /\ \A l \in 1..(j - 1) : _floats_equal(e[l].v, a[l].v)

LineMatches(e, a) ==
    IF ParsesAsFloats(e) /\ ParsesAsFloats(a) /\ Len(e) = Len(a)
    THEN \A j \in 1..Len(e) : _floats_equal(e[j].v, a[j].v)
    ELSE e = a

\* default_checker; a request whose actual_output is not a string makes
\* actual.strip() raise AttributeError
default_checker(problem_id, input_data, expected, actual) ==
    IF ~actual.isStr
    THEN Raise("AttributeError", "object has no attribute 'strip'", <<>>)
    ELSE
    LET expected_lines == StripSplit(expected)
        actual_lines   == StripSplit(actual.text)
    IN  IF Len(expected_lines) # Len(actual_lines)
        THEN Verdict(FALSE, "Line count mismatch: expected {}, got {}",
                     <<Num("calc", Len(expected_lines)), Num("calc", Len(actual_lines))>>)
        ELSE
        LET bad == {i \in 1..Len(expected_lines) :
                       ~LineMatches(expected_lines[i], actual_lines[i])}
        IN  IF bad = {} THEN Verdict(TRUE, "OK", <<>>)
            ELSE
            LET i == CHOOSE j \in bad : \A l \in bad : j <= l
                e == expected_lines[i]
                a == actual_lines[i]
            IN  IF ParsesAsFloats(e) /\ ParsesAsFloats(a) /\ Len(e) = Len(a)
                THEN LET j == FirstBadToken(e, a)
                     IN  Verdict(FALSE, "Line {}, token {}: expected {}, got {}",
                                 <<Num("calc", i), Num("calc", j),
                                   Arg("expected", <<e[j]>>), Arg("actual", <<a[j]>>)>>)
                ELSE Verdict(FALSE, "Line {}: expected '{}', got '{}'",
                             <<Num("calc", i), Arg("expected", e), Arg("actual", a)>>)

\* the coordinate domain of a crayon: range(256)
ColorDomain == 256

\* a list index i is valid for a list of ColorDomain items
ValidIndex(i) == -ColorDomain <= i /\ i < ColorDomain

\* the item a valid (possibly negative) list index selects
WrapIndex(i) == IF i < 0 THEN i + ColorDomain ELSE i

\* the number of times c occurs in the sequence cs
Occurrences(cs, c) == Cardinality({j \in 1..Len(cs) : cs[j] = c})

\* checker_pastele, lines 90-92: count the crayons of input lines 1..n
RECURSIVE CountCrayons(_, _, _, _)
CountCrayons(input_lines, i, n, acc) ==
    IF i > n THEN [err |-> Verdict(TRUE, "", <<>>), crayons |-> acc]
    ELSE IF i + 1 > Len(input_lines)
    THEN [err |-> Raise("IndexError", "list index out of range", <<>>), crayons |-> acc]
    ELSE
    LET line == input_lines[i + 1]
        u    == UnpackInts(line, 3, "input")
    IN  IF u.exc # "none" THEN [err |-> u, crayons |-> acc]
        ELSE IF ~(ValidIndex(line[1].v) /\ ValidIndex(line[2].v) /\ ValidIndex(line[3].v))
        THEN [err |-> Raise("IndexError", "list index out of range", <<>>),
              crayons |-> acc]
        ELSE CountCrayons(input_lines, i + 1, n,
                          Append(acc, <<WrapIndex(line[1].v), WrapIndex(line[2].v),
                                        WrapIndex(line[3].v)>>))

\* the claimed crayons checked against the counts of the input, with no count
\* taken down for a crayon already claimed
CheckCrayons_nodecrement(actual_lines, i, k, crayons, used) ==
    LET claimed == [j \in 1..k |->
                      <<actual_lines[j + 1][1].v, actual_lines[j + 1][2].v,
                        actual_lines[j + 1][3].v>>]
        ok == \A j \in 1..k :
                 /\ Len(actual_lines[j + 1]) = 3
                 /\ \A l \in 1..3 : /\ actual_lines[j + 1][l].k = "int"
                                    /\ 0 <= actual_lines[j + 1][l].v
                                    /\ actual_lines[j + 1][l].v < ColorDomain
                 /\ Occurrences(crayons, claimed[j]) > 0
    IN  IF ok THEN [err |-> Verdict(TRUE, "", <<>>), used |-> claimed]
        ELSE [err |-> Verdict(FALSE, "Crayon ({}, {}, {}) not available", <<>>),
              used |-> <<>>]

\* checker_pastele, lines 115-131: the claimed crayons of actual lines 1..k
RECURSIVE CheckCrayons(_, _, _, _, _)
CheckCrayons(actual_lines, i, k, crayons, used) ==
    IF i > k THEN [err |-> Verdict(TRUE, "", <<>>), used |-> used]
    ELSE
    LET parts == actual_lines[i + 1]
        bad   == {j \in 1..Len(parts) : parts[j].k # "int"}
    IN  IF Len(parts) # 3
        THEN [err |-> Verdict(FALSE, "Invalid crayon format on line {}",
                              <<Num("calc", i + 1)>>), used |-> used]
        ELSE IF bad # {}
        THEN [err |-> Raise("ValueError", "invalid literal for int() with base 10",
                            <<Arg("actual",
                                  <<parts[CHOOSE j \in bad : \A l \in bad : j <= l]>>)>>),
              used |-> used]
        ELSE
        LET c == <<parts[1].v, parts[2].v, parts[3].v>>
        IN  IF ~(\A j \in 1..3 : 0 <= c[j] /\ c[j] < ColorDomain)
            THEN [err |-> Verdict(FALSE, "Crayon ({}, {}, {}) out of range",
                                  <<Arg("actual", parts)>>), used |-> used]
            ELSE IF Occurrences(crayons, c) - Occurrences(used, c) <= 0
            THEN [err |-> Verdict(FALSE, "Crayon ({}, {}, {}) not available",
                                  <<Arg("actual", parts)>>), used |-> used]
            ELSE CheckCrayons(actual_lines, i + 1, k, crayons, Append(used, c))

\* max(...) and min(...) of a channel over the claimed crayons, from the
\* initial values -1 and 256
MaxOf(used, ch) ==
    IF Len(used) = 0 THEN -1
    ELSE CHOOSE m \in {used[j][ch] : j \in 1..Len(used)} :
            \A j \in 1..Len(used) : used[j][ch] <= m

MinOf(used, ch) ==
    IF Len(used) = 0 THEN ColorDomain
    ELSE CHOOSE m \in {used[j][ch] : j \in 1..Len(used)} :
            \A j \in 1..Len(used) : m <= used[j][ch]

\* the colorfulness taken from the first channel alone
ComputedColorfulness_red(used) == MaxOf(used, 1) - MinOf(used, 1)

\* lines 134: the colorfulness recomputed from the bounding extents
ComputedColorfulness(used) ==
    Max2(MaxOf(used, 1) - MinOf(used, 1),
         Max2(MaxOf(used, 2) - MinOf(used, 2), MaxOf(used, 3) - MinOf(used, 3)))

\* checker_pastele, lines 83-92: the texts are split, the header read and the
\* crayons of the input counted into the array `count`
PasteleParse(input_data, actual) ==
    IF ~actual.isStr
    THEN [err |-> Raise("AttributeError", "object has no attribute 'strip'", <<>>),
          crayons |-> <<>>]
    ELSE
    LET input_lines == StripSplit(input_data)
        header      == UnpackInts(input_lines[1], 2, "input")
    IN  IF header.exc # "none" THEN [err |-> header, crayons |-> <<>>]
        ELSE CountCrayons(input_lines, 1, input_lines[1][1].v, <<>>)

\* checker_pastele, lines 95-138: the claim is verified against `count`
PasteleVerify(input_data, expected, actual, crayons) ==
    LET input_lines    == StripSplit(input_data)
        expected_lines == StripSplit(expected)
        actual_lines   == StripSplit(actual.text)
        k              == input_lines[1][2].v
    IN  IF ~IsIntLine(expected_lines[1])
        THEN Raise("ValueError", "invalid literal for int() with base 10",
                   <<Arg("expected", expected_lines[1])>>)
        ELSE IF ~IsIntLine(actual_lines[1])
        THEN Verdict(FALSE, "Invalid colorfulness: {}",
                     <<Arg("actual", actual_lines[1])>>)
        ELSE
        LET expected_colorfulness == expected_lines[1][1].v
            actual_colorfulness   == actual_lines[1][1].v
        IN  IF actual_colorfulness # expected_colorfulness
            THEN Verdict(FALSE, "Colorfulness mismatch: expected {}, got {}",
                         <<Arg("expected", expected_lines[1]),
                           Arg("actual", actual_lines[1])>>)
            ELSE IF Len(actual_lines) < k + 1
            THEN Verdict(FALSE, "Expected {} crayons, got {}",
                         <<Num("input", k), Num("calc", Len(actual_lines) - 1)>>)
            ELSE
            LET claim == CheckCrayons(actual_lines, 1, k, crayons, <<>>)
            IN  IF claim.err.exc # "none" \/ ~claim.err.passed THEN claim.err
                ELSE IF ComputedColorfulness(claim.used) # actual_colorfulness
                THEN Verdict(FALSE, "Computed colorfulness is {}, but claimed {}",
                             <<Num("calc", ComputedColorfulness(claim.used)),
                               Arg("actual", actual_lines[1])>>)
                ELSE Verdict(TRUE, "OK", <<>>)

\* checker_pastele, lines 83-138: the body of its try block
PasteleBody(input_data, expected, actual) ==
    LET count == PasteleParse(input_data, actual)
    IN  IF count.err.exc # "none" THEN count.err
        ELSE PasteleVerify(input_data, expected, actual, count.crayons)

\* the body with no handler around it
checker_pastele_noexcept(problem_id, input_data, expected, actual) ==
    PasteleBody(input_data, expected, actual)

\* checker_pastele: the body, with  except Exception as e  around it
checker_pastele(problem_id, input_data, expected, actual) ==
    LET r == PasteleBody(input_data, expected, actual)
    IN  IF r.exc # "none" THEN CheckerError(r) ELSE r

-----------------------------------------------------------------------------
(* The checkers: checker_rez.  A cut is <<x1, y1, x2, y2>>.                *)

\* the cake is [-5000, 5000] x [-5000, 5000]
Half == 5000

\* an endpoint anywhere in the closed cake taken for one on its boundary
on_boundary_closed(x, y) == Max2(Abs(x), Abs(y)) <= Half

\* on_boundary, lines 191-192
on_boundary(x, y) == Max2(Abs(x), Abs(y)) = Half

\* The coordinates of the cuts of this model are multiples of Grid, and the
\* arithmetic of line_intersection is done in units of Grid: that changes
\* neither t nor the outcome of a comparison, and keeps the products small.
Grid == Half \div 2

U(x) == x \div Grid

\* line 213: denom
Denom(c1, c2) ==
    (U(c1[1]) - U(c1[3])) * (U(c2[2]) - U(c2[4]))
      - (U(c1[2]) - U(c1[4])) * (U(c2[1]) - U(c2[3]))

\* line 217: the numerator of t
TNum(c1, c2) ==
    (U(c1[1]) - U(c2[1])) * (U(c2[2]) - U(c2[4]))
      - (U(c1[2]) - U(c2[2])) * (U(c2[1]) - U(c2[3]))

\* line 223: -5000 < p < 5000 for p = num / den, den # 0
StrictlyInside(num, den) ==
    IF den > 0 THEN -U(Half) * den < num /\ num < U(Half) * den
    ELSE U(Half) * den < num /\ num < -U(Half) * den

\* line_intersection(cut1, cut2) is not None: the lines through the cuts are
\* not parallel and meet at (px, py) strictly inside the cake, where
\* px = x1 + t (x2 - x1) and py = y1 + t (y2 - y1), t = TNum / Denom
line_intersection(c1, c2) ==
    LET den == Denom(c1, c2)
        t   == TNum(c1, c2)
    IN  /\ den # 0
        /\ StrictlyInside(U(c1[1]) * den + t * (U(c1[3]) - U(c1[1])), den)
        /\ StrictlyInside(U(c1[2]) * den + t * (U(c1[4]) - U(c1[2])), den)

\* lines 227-231: the number of pairs of cuts with an intersection
Intersections(cuts) ==
    Cardinality({p \in (1..Len(cuts)) \X (1..Len(cuts)) :
                    p[1] < p[2] /\ line_intersection(cuts[p[1]], cuts[p[2]])})

\* int(input_data.strip()) succeeds: the text is one integer literal
IsIntText(t) == Len(StripSplit(t)) = 1 /\ IsIntLine(StripSplit(t)[1])

\* lines 179-188: the first of the lines 1..n that is no cut, 0 if all are
FirstBadCut(actual_lines, n) ==
    LET bad == {i \in 1..n : \/ Len(actual_lines[i + 1]) # 4
                             \/ \E j \in 1..Len(actual_lines[i + 1]) :
                                   actual_lines[i + 1][j].k # "int"}
    IN  IF bad = {} THEN 0 ELSE CHOOSE i \in bad : \A l \in bad : i <= l

\* lines 194-198: the first cut with an endpoint off the boundary, 0 if none
FirstOffBoundary(cuts) ==
    LET bad == {i \in 1..Len(cuts) : ~on_boundary(cuts[i][1], cuts[i][2])
                                      \/ ~on_boundary(cuts[i][3], cuts[i][4])}
    IN  IF bad = {} THEN 0 ELSE CHOOSE i \in bad : \A l \in bad : i <= l

\* checker_rez, lines 153-238: the body of its try block
RezBody(input_data, expected, actual) ==
    IF ~IsIntText(input_data)
    THEN Raise("ValueError", "invalid literal for int() with base 10",
               <<Arg("input", StripSplit(input_data)[1])>>)
    ELSE IF ~actual.isStr
    THEN Raise("AttributeError", "object has no attribute 'strip'", <<>>)
    ELSE
    LET k              == StripSplit(input_data)[1][1].v
        expected_lines == StripSplit(expected)
        actual_lines   == StripSplit(actual.text)
    IN  IF ~IsIntLine(expected_lines[1])
        THEN Raise("ValueError", "invalid literal for int() with base 10",
                   <<Arg("expected", expected_lines[1])>>)
        ELSE IF ~IsIntLine(actual_lines[1])
        THEN Verdict(FALSE, "Invalid N: {}", <<Arg("actual", actual_lines[1])>>)
        ELSE
        LET expected_n == expected_lines[1][1].v
            actual_n   == actual_lines[1][1].v
        IN  IF actual_n # expected_n
            THEN Verdict(FALSE, "N mismatch: expected {}, got {}",
                         <<Arg("expected", expected_lines[1]),
                           Arg("actual", actual_lines[1])>>)
            ELSE IF Len(actual_lines) < actual_n + 1
            THEN Verdict(FALSE, "Expected {} cuts, got {}",
                         <<Arg("actual", actual_lines[1]),
                           Num("calc", Len(actual_lines) - 1)>>)
            ELSE IF FirstBadCut(actual_lines, actual_n) # 0
            THEN LET i == FirstBadCut(actual_lines, actual_n)
                 IN  IF Len(actual_lines[i + 1]) # 4
                     THEN Verdict(FALSE, "Invalid cut format on line {}",
                                  <<Num("calc", i + 1)>>)
                     ELSE Verdict(FALSE, "Invalid cut on line {}",
                                  <<Num("calc", i + 1)>>)
            ELSE
            LET cuts == [i \in 1..Max2(actual_n, 0) |->
                           <<actual_lines[i + 1][1].v, actual_lines[i + 1][2].v,
                             actual_lines[i + 1][3].v, actual_lines[i + 1][4].v>>]
            IN  IF FirstOffBoundary(cuts) # 0
                THEN Verdict(FALSE, "Cut {} endpoint ({}, {}) not on boundary",
                             <<Num("calc", FirstOffBoundary(cuts)),
                               Arg("actual", actual_lines[FirstOffBoundary(cuts) + 1])>>)
                ELSE
                LET pieces == 1 + actual_n + Intersections(cuts)
                IN  IF pieces < k
                    THEN Verdict(FALSE, "Cuts create only {} pieces, need at least {}",
                                 <<Num("calc", pieces), Num("input", k)>>)
                    ELSE Verdict(TRUE, "OK", <<>>)

\* checker_rez: the body, with  except Exception as e  around it
checker_rez(problem_id, input_data, expected, actual) ==
    LET r == RezBody(input_data, expected, actual)
    IN  IF r.exc # "none" THEN CheckerError(r) ELSE r

-----------------------------------------------------------------------------
(* The checkers: checker_kolekcija.  An interval is <<a, b>>.              *)

\* the order of tuples that sorted() uses
TupleLeq(p, q) == p[1] < q[1] \/ (p[1] = q[1] /\ p[2] <= q[2])

RECURSIVE Insert(_, _)
Insert(s, p) ==
    IF Len(s) = 0 THEN <<p>>
    ELSE IF TupleLeq(p, s[1]) THEN <<p>> \o s
    ELSE <<s[1]>> \o Insert(Tail(s), p)

\* line 253: sorted(intervals)
RECURSIVE sorted(_)
sorted(s) == IF Len(s) = 0 THEN <<>> ELSE Insert(sorted(Tail(s)), s[1])

\* the end of the current run taken from the interval merged last
Extend_last(curr_end, end) == end

\* line 261: curr_end = max(curr_end, end)
Extend(curr_end, end) == Max2(curr_end, end)

\* lines 259-268: the merge loop over sorted_intervals[1:], and the sum of
\* the lengths of the merged intervals
RECURSIVE MergeSum(_, _, _, _)
MergeSum(rest, curr_start, curr_end, total) ==
    IF Len(rest) = 0 THEN total + (curr_end - curr_start + 1)
    ELSE IF rest[1][1] <= curr_end + 1
    THEN MergeSum(Tail(rest), curr_start, Extend(curr_end, rest[1][2]), total)
    ELSE MergeSum(Tail(rest), rest[1][1], rest[1][2],
                  total + (curr_end - curr_start + 1))

_count_distinct_in_intervals(intervals) ==
    IF Len(intervals) = 0 THEN 0
    ELSE LET sorted_intervals == sorted(intervals)
         IN  MergeSum(Tail(sorted_intervals), sorted_intervals[1][1],
                      sorted_intervals[1][2], 0)

\* lines 287-293: n, k, m and the songs are read from the input; the result
\* is the exception this raises, or a passing verdict
KolekcijaInput(input_lines) ==
    LET first_line == input_lines[1]
    IN  IF Len(first_line) < 2
        THEN Raise("IndexError", "list index out of range", <<>>)
        ELSE IF first_line[1].k # "int" \/ first_line[2].k # "int"
        THEN Raise("ValueError", "invalid literal for int() with base 10",
                   <<Arg("input", first_line)>>)
        ELSE IF Len(input_lines) < 2
        THEN Raise("IndexError", "list index out of range", <<>>)
        ELSE IF ~IsIntLine(input_lines[2])
        THEN Raise("ValueError", "invalid literal for int() with base 10",
                   <<Arg("input", input_lines[2])>>)
        ELSE
        LET m   == input_lines[2][1].v
            bad == {i \in 1..m : \/ i + 2 > Len(input_lines)
                                 \/ ~IsIntLine(input_lines[i + 2])}
        IN  IF bad = {} THEN Verdict(TRUE, "", <<>>)
            ELSE LET i == CHOOSE j \in bad : \A l \in bad : j <= l
                 IN  IF i + 2 > Len(input_lines)
                     THEN Raise("IndexError", "list index out of range", <<>>)
                     ELSE Raise("ValueError", "invalid literal for int() with base 10",
                                <<Arg("input", input_lines[i + 2])>>)

\* lines 315-324: the first of the lines 1..m that is no interval, 0 if all are
FirstBadInterval(actual_lines, m) ==
    LET bad == {i \in 1..m : \/ Len(actual_lines[i + 1]) # 2
                             \/ \E j \in 1..Len(actual_lines[i + 1]) :
                                   actual_lines[i + 1][j].k # "int"}
    IN  IF bad = {} THEN 0 ELSE CHOOSE i \in bad : \A l \in bad : i <= l

\* lines 327-338: what is wrong with interval i, "" if nothing
IntervalFault(song, a, b, n, k) ==
    IF b - a + 1 # k THEN "Interval {} has length {}, expected {}"
    ELSE IF a < 1 \/ b > n THEN "Interval {} [{}, {}] out of bounds [1, {}]"
    ELSE IF ~(a <= song /\ song <= b) THEN "Song {} not in interval [{}, {}]"
    ELSE ""

\* checker_kolekcija, lines 282-347: the body of its try block
KolekcijaBody(input_data, expected, actual) ==
    IF ~actual.isStr
    THEN Raise("AttributeError", "object has no attribute 'strip'", <<>>)
    ELSE
    LET input_lines    == StripSplit(input_data)
        expected_lines == StripSplit(expected)
        actual_lines   == StripSplit(actual.text)
        parsed         == KolekcijaInput(input_lines)
    IN  IF parsed.exc # "none" THEN parsed
        ELSE IF ~IsIntLine(expected_lines[1])
        THEN Raise("ValueError", "invalid literal for int() with base 10",
                   <<Arg("expected", expected_lines[1])>>)
        ELSE IF ~IsIntLine(actual_lines[1])
        THEN Verdict(FALSE, "Invalid disk accesses: {}",
                     <<Arg("actual", actual_lines[1])>>)
        ELSE
        LET n     == input_lines[1][1].v
            k     == input_lines[1][2].v
            m     == input_lines[2][1].v
            songs == [i \in 1..Max2(m, 0) |-> input_lines[i + 2][1].v]
            expected_accesses == expected_lines[1][1].v
            actual_accesses   == actual_lines[1][1].v
        IN  IF actual_accesses # expected_accesses
            THEN Verdict(FALSE, "Disk accesses mismatch: expected {}, got {}",
                         <<Arg("expected", expected_lines[1]),
                           Arg("actual", actual_lines[1])>>)
            ELSE IF Len(actual_lines) < m + 1
            THEN Verdict(FALSE, "Expected {} intervals, got {}",
                         <<Num("input", m), Num("calc", Len(actual_lines) - 1)>>)
            ELSE IF FirstBadInterval(actual_lines, m) # 0
            THEN LET i == FirstBadInterval(actual_lines, m)
                 IN  IF Len(actual_lines[i + 1]) # 2
                     THEN Verdict(FALSE, "Invalid interval format on line {}",
                                  <<Num("calc", i + 1)>>)
                     ELSE Verdict(FALSE, "Invalid interval on line {}",
                                  <<Num("calc", i + 1)>>)
            ELSE
            LET intervals == [i \in 1..Max2(m, 0) |->
                                <<actual_lines[i + 1][1].v, actual_lines[i + 1][2].v>>]
                faulty    == {i \in 1..Len(intervals) :
                                 IntervalFault(songs[i], intervals[i][1],
                                               intervals[i][2], n, k) # ""}
            IN  IF faulty # {}
                THEN LET i == CHOOSE j \in faulty : \A l \in faulty : j <= l
                     IN  Verdict(FALSE,
                                 IntervalFault(songs[i], intervals[i][1],
                                               intervals[i][2], n, k),
                                 <<Num("calc", i), Arg("actual", actual_lines[i + 1]),
                                   Num("input", songs[i]), Num("input", k),
                                   Num("input", n)>>)
                ELSE IF _count_distinct_in_intervals(intervals) # actual_accesses
                THEN Verdict(FALSE, "Actual disk accesses should be {}, claimed {}",
                             <<Num("calc", _count_distinct_in_intervals(intervals)),
                               Arg("actual", actual_lines[1])>>)
                ELSE Verdict(TRUE, "OK", <<>>)

\* checker_kolekcija: the body, with  except Exception as e  around it
checker_kolekcija(problem_id, input_data, expected, actual) ==
    LET r == KolekcijaBody(input_data, expected, actual)
    IN  IF r.exc # "none" THEN CheckerError(r) ELSE r

-----------------------------------------------------------------------------
(* The Verdict Service: POST /grade.                                       *)

\* CHECKER_REGISTRY and get_checker: the name of the checker of a problem
CHECKER_REGISTRY == { <<"pastele", "checker_pastele">>, <<"rez", "checker_rez">>,
                      <<"kolekcija", "checker_kolekcija">> }

\* str.strip().lower() on the problem ids of this model
Fold(problem_id) ==
    CASE problem_id = "Pastele"  -> "pastele"
      [] problem_id = "pastele " -> "pastele"
      [] OTHER -> problem_id

\* a lookup that ignores case and surrounding blanks
get_checker_folded(problem_id) ==
    IF \E e \in CHECKER_REGISTRY : e[1] = Fold(problem_id)
    THEN (CHOOSE e \in CHECKER_REGISTRY : e[1] = Fold(problem_id))[2]
    ELSE "default_checker"

\* get_checker, lines 361-363: CHECKER_REGISTRY.get(problem_id, default_checker)
get_checker(problem_id) ==
    IF \E e \in CHECKER_REGISTRY : e[1] = problem_id
    THEN (CHOOSE e \in CHECKER_REGISTRY : e[1] = problem_id)[2]
    ELSE "default_checker"

\* checker(problem_id, input_data, expected_output, actual_output)
RunChecker(checker, problem_id, input_data, expected, actual) ==
    CASE checker = "default_checker" ->
            default_checker(problem_id, input_data, expected, actual)
      [] checker = "checker_pastele" ->
            checker_pastele(problem_id, input_data, expected, actual)
      [] checker = "checker_rez" ->
            checker_rez(problem_id, input_data, expected, actual)
      [] checker = "checker_kolekcija" ->
            checker_kolekcija(problem_id, input_data, expected, actual)

\* a file of the protected tree
File(exists, readable, text) ==
    [exists |-> exists, readable |-> readable, text |-> text]

NoFile == File(FALSE, FALSE, <<>>)

\* the protected tree holds one test of one problem:
\* {GRADING_DIR}/inputs/{problem_id}/{test_id}.txt and the same under outputs
Store(problem_id, test_id, input, output) ==
    [problem_id |-> problem_id, test_id |-> test_id, input |-> input,
     output |-> output]

\* INPUTS_DIR / problem_id / f"{test_id}.txt"
InputFile(st, problem_id, test_id) ==
    IF problem_id = st.problem_id /\ test_id = st.test_id THEN st.input ELSE NoFile

\* OUTPUTS_DIR / problem_id / f"{test_id}.txt"
OutputFile(st, problem_id, test_id) ==
    IF problem_id = st.problem_id /\ test_id = st.test_id THEN st.output ELSE NoFile

\* a POST /grade body; problem_id "" and test_id <<>> stand for a missing key
Request(body, problem_id, test_id, actual) ==
    [body |-> body, problem_id |-> problem_id, test_id |-> test_id,
     actual |-> actual]

\* actual_output: a string, or a JSON value that is none
Text(t) == [isStr |-> TRUE, text |-> t]

NotAString == [isStr |-> FALSE, text |-> <<>>]

\* jsonify({"verdict", "passed", "message"}), status
Response(status, verdict, p, message) ==
    [status |-> status, verdict |-> verdict, passed |-> p, message |-> message]

Plain(fmt) == [fmt |-> fmt, err |-> "", args |-> <<>>]

\* the except clause missing: the request goes on with passed = True
CheckerRaised_fallthrough(r) ==
    Response(200, "AC", TRUE, Plain("OK"))

\* lines 166-172: the checker raised
CheckerRaised(r) ==
    Response(200, "WA", FALSE,
             [fmt |-> "Checker error: {}", err |-> r.message.err,
              args |-> r.message.args])

\* lines 174-182: the checker returned (passed, message)
CheckerReturned(r) ==
    Response(200, IF r.passed THEN "AC" ELSE "WA", r.passed, r.message)

\* grade, lines 106-190
grade(st, req) ==
    IF req.body \in {"invalid", "array"}
    THEN \* get_json() or data.get() raises: the outer  except Exception
         Response(500, "WA", FALSE, Plain("Internal server error"))
    ELSE IF req.body \in {"null", "empty_object"}
    THEN Response(400, "WA", FALSE, Plain("No JSON body provided"))
    ELSE IF req.problem_id = ""
    THEN Response(400, "WA", FALSE, Plain("Missing problem_id"))
    ELSE IF req.test_id = <<>>
    THEN Response(400, "WA", FALSE, Plain("Missing test_id"))
    ELSE
    LET input_file  == InputFile(st, req.problem_id, req.test_id)
        output_file == OutputFile(st, req.problem_id, req.test_id)
    IN  IF ~input_file.exists
        THEN Response(404, "WA", FALSE, Plain("Test case '{}' not found for problem '{}'"))
        ELSE IF ~output_file.exists
        THEN Response(404, "WA", FALSE, Plain("Expected output not found for test '{}'"))
        ELSE IF ~(input_file.readable /\ output_file.readable)
        THEN Response(500, "WA", FALSE, Plain("Internal error reading test data"))
        ELSE
        LET r == RunChecker(get_checker(req.problem_id), req.problem_id,
                            input_file.text, output_file.text, req.actual)
        IN  IF r.exc # "none" THEN CheckerRaised(r) ELSE CheckerReturned(r)

-----------------------------------------------------------------------------
(* The Verdict Service answering grade requests (specification SpecGrade). *)

\* the longest candidate output, in lines after the first
MaxLines == 2

\* all texts of at most n lines drawn from the set lines
TextsOf(lines, n) == UNION { [1..m -> lines] : m \in 0..n }

\* the crayons (0,0,0) and (10,10,10)
Black == <<I(0), I(0), I(0)>>

Grey == <<I(10), I(10), I(10)>>

\* stored inputs of "pastele": a well-formed one (N=3, K=2, a crayon twice),
\* and files whose content the checker cannot parse
PasteleInputs ==
    { << <<I(3), I(2)>>, Black, Black, Grey >>,
      << <<I(3), I(2)>>, Black >>,
      << <<I(2), I(2)>>, <<I(0), I(0), W(7)>>, Grey >>,
      << <<I(1), I(1)>>, <<I(300), I(0), I(0)>> >>,
      << <<I(1), I(1)>>, <<I(-1), I(0), I(0)>> >>,
      << <<I(2)>>, Black, Black >> }

\* stored expected outputs of "pastele": 0, 10, and one that is no integer
PasteleExpected == { << <<I(0)>> >>, << <<I(10)>> >>, << <<W(9)>> >> }

PasteleFirstLines == { <<I(0)>>, <<I(10)>>, <<W(1)>>, <<>> }

PasteleCrayonLines ==
    { Black, Grey, <<I(5), I(5), I(5)>>, <<I(255), I(0), I(0)>>,
      <<I(300), I(0), I(0)>>, <<I(0), I(0)>>, <<I(0), W(1), I(0)>> }

PasteleActuals ==
    { <<first>> \o rest : first \in PasteleFirstLines,
                          rest \in TextsOf(PasteleCrayonLines, MaxLines) }

\* stored expected outputs of "sum", a problem with no registered checker
SumExpected ==
    { << <<I(42)>> >>, << <<I(42)>>, <<W(9), I(7)>> >>, << <<I(1000000)>> >> }

SumLines ==
    { <<>>, <<I(42)>>, <<I(41)>>, <<W(1)>>, <<W(9), I(7)>>, <<I(1000001)>>,
      <<I(42), I(42)>> }

SumActuals == TextsOf(SumLines, MaxLines)

\* the id of the stored test: "2"
StoredTest == <<"2">>

Readable(t) == File(TRUE, TRUE, t)

Stores ==
    { Store("pastele", StoredTest, Readable(i), Readable(e)) :
        i \in PasteleInputs, e \in PasteleExpected }
    \cup { Store("sum", StoredTest, Readable(<< <<I(1), I(41)>> >>), Readable(e)) :
             e \in SumExpected }
    \cup { Store("sum", StoredTest, Readable(<< <<I(1), I(41)>> >>), NoFile),
           Store("sum", StoredTest, File(TRUE, FALSE, <<>>), Readable(<< <<I(42)>> >>)) }

ActualsOf(problem_id) ==
    IF problem_id = "pastele" THEN PasteleActuals ELSE SumActuals

\* the requests sent to a service holding the store st
Requests(st) ==
    { Request("object", st.problem_id, st.test_id, Text(a)) :
        a \in ActualsOf(st.problem_id) }
    \cup { Request("object", st.problem_id, st.test_id, NotAString) }
    \cup { Request(b, st.problem_id, st.test_id, Text(<< <<I(42)>> >>)) :
             b \in {"invalid", "array", "null", "empty_object"} }
    \cup { Request("object", p, t, Text(<< <<I(42)>> >>)) :
             p \in {"", "nosuch", st.problem_id}, t \in {<<>>, <<"a">>, st.test_id} }

NoRequest == Request("none", "", <<>>, NotAString)

NoResponse == Response(0, "none", FALSE, Plain(""))

\* the runner side is idle in this specification
IdleRunner ==
    /\ env = [cpp |-> FALSE, py |-> FALSE, input_dir |-> "missing", files |-> {}]
    /\ pc = "idle"
    /\ language = ""
    /\ test_cases = <<>>
    /\ idx = 1
    /\ cur = NoRun
    /\ test_results = <<>>
    /\ passed = 0
    /\ result = NoResult
    /\ trace = <<>>

InitGrade ==
    /\ store \in Stores
    /\ request = NoRequest
    /\ response = NoResponse
    /\ IdleRunner

\* one POST /grade request, handled to its response
Grade ==
    /\ request = NoRequest
    /\ \E req \in Requests(store) :
          /\ request' = req
          /\ response' = grade(store, req)
    /\ UNCHANGED store
    /\ UNCHANGED runnerVars

\* the response is sent; nothing of the request stays in the service
Forget ==
    /\ request # NoRequest
    /\ request' = NoRequest
    /\ response' = NoResponse
    /\ UNCHANGED store
    /\ UNCHANGED runnerVars

NextGrade ==
    \/ Grade
    \/ Forget

SpecGrade == InitGrade /\ [][NextGrade]_vars

-----------------------------------------------------------------------------
(* Output normalisation applied to texts (specification SpecNorm): the     *)
(* runner normalises a candidate's stdout, the service reads a stored      *)
(* expected output and calls the checker with it.                          *)

\* the longest text
MaxLen == 4

\* the characters of the texts: a letter, a blank, "\r" and "\n"
Alphabet == {"a", " ", CR, LF}

Strings == UNION { [1..n -> Alphabet] : n \in 0..MaxLen }

\* the texts at hand: what the runner's and the service's normaliser made of the
\* text, what they had made of it one application before, and the text the
\* checker was called with
Texts(stage, r, sv, r_prev, s_prev, given) ==
    [stage |-> stage, runner |-> r, server |-> sv, runner_prev |-> r_prev,
     server_prev |-> s_prev, given |-> given]

InitNorm ==
    /\ request \in Strings
    /\ response = Texts("raw", request, request, request, request, <<>>)
    /\ store = <<>>
    /\ IdleRunner

\* the normalisers are applied to the text, and then to their own result
Normalize ==
    /\ response.stage \in {"raw", "once"}
    /\ response' = Texts(IF response.stage = "raw" THEN "once" ELSE "twice",
                         _normalize_output(response.runner),
                         normalize_output(response.server),
                         response.runner, response.server, <<>>)
    /\ UNCHANGED <<store, request>>
    /\ UNCHANGED runnerVars

\* grade reads the text as the stored expected output and calls the checker
ReadExpected ==
    /\ response.stage = "raw"
    /\ response' = Texts("given", <<>>, <<>>, <<>>, <<>>, ExpectedGiven(request))
    /\ UNCHANGED <<store, request>>
    /\ UNCHANGED runnerVars

NextNorm ==
    \/ Normalize
    \/ ReadExpected

SpecNorm == InitNorm /\ [][NextNorm]_vars

-----------------------------------------------------------------------------
(* Properties of one grading pass (specification Spec).                    *)

\* the answers the history holds to the grade request of test `id`
RepliesFor(id) ==
    { trace[j].resp : j \in { k \in 1..Len(trace) :
                                trace[k].ev = "grade_response" /\ trace[k].test_id = id } }

\* a grade request that failed: no connection, no answer in time, a status
\* other than 200, or a body that is not JSON
GradeFailed(r) ==
    \/ r.kind \in {"conn_error", "timeout"}
    \/ r.kind = "http" /\ (r.status # 200 \/ r.body = "undecodable")

\* the verdict the Verdict Service gave: HTTP 200 and passed = true
GradeAccepted(r) ==
    r.kind = "http" /\ r.status = 200 /\ r.body = "object" /\ r.passed = "true"

HasReturned == result.ended = "returned"

\* the number of TestResults of rs with passed = true
PassedCount(rs) == Cardinality({i \in 1..Len(rs) : rs[i].passed})

EventsOf(ev) == {j \in 1..Len(trace) : trace[j].ev = ev}

\* C1: fail-closed grading.  A test whose grade request failed (connection
\* refused, timeout, non-200 status or undecodable body) gets a TestResult with
\* passed = false and a status other than AC, in the running list and in the
\* GradingResult returned.
C1_FailClosed ==
    /\ \A i \in 1..Len(test_results) :
          \A r \in RepliesFor(test_results[i].test_id) :
             GradeFailed(r) =>
                ~test_results[i].passed /\ test_results[i].status # "AC"
    /\ HasReturned =>
          \A i \in 1..Len(result.value.test_results) :
             \A r \in RepliesFor(result.value.test_results[i].test_id) :
                GradeFailed(r) =>
                   /\ ~result.value.test_results[i].passed
                   /\ result.value.test_results[i].status # "AC"

\* C1 witness: a pass has returned in which every grade request failed, one of
\* them by a refused connection, and another test's by an undecodable body
C1_Witness ==
    /\ HasReturned
    /\ result.value.total = MaxTests
    /\ \A i \in 1..Len(test_results) :
          \E r \in RepliesFor(test_results[i].test_id) : GradeFailed(r)
    /\ \E i \in 1..Len(test_results) :
          \E r \in RepliesFor(test_results[i].test_id) : r.kind = "conn_error"
    /\ \E i \in 1..Len(test_results) :
          \E r \in RepliesFor(test_results[i].test_id) : r.body = "undecodable"

\* C5: the Verdict Service is the sole authority.  A TestResult is AC (or
\* passed) only if the grade request of that same test was answered 200 with
\* passed = true, and that request was sent after the candidate exited; the
\* local scan happens only as the enumeration step, right after list_tests.
C5_SoleAuthority ==
    /\ \A i \in 1..Len(test_results) :
          (test_results[i].status = "AC" \/ test_results[i].passed) =>
             /\ \E r \in RepliesFor(test_results[i].test_id) : GradeAccepted(r)
             /\ \E j \in EventsOf("grade_request") :
                   trace[j].test_id = test_results[i].test_id
    /\ \A j \in EventsOf("scan_local") :
          /\ j > 1 /\ trace[j - 1].ev = "list_tests"
          /\ \A k \in 1..j : trace[k].ev \notin {"spawn", "grade_request"}

\* C5 witness: the ids came from the local scan (the service gave none), and a
\* test of that pass is AC on the service's verdict
C5_Witness ==
    /\ HasReturned
    /\ EventsOf("scan_local") # {}
    /\ \E i \in 1..Len(test_results) : test_results[i].status = "AC"

\* C6: the arithmetic of a returned GradingResult: passed counts the passed
\* TestResults, 0 <= passed <= total, score = passed/total when total > 0 and
\* 0 when total = 0, so 0 <= score <= 1.
C6_ScoreArithmetic ==
    HasReturned =>
       LET g == result.value
       IN  /\ g.passed = PassedCount(g.test_results)
           /\ 0 <= g.passed /\ g.passed <= g.total
           /\ g.score[2] > 0
           /\ g.total > 0 => g.score[1] * g.total = g.passed * g.score[2]
           /\ g.total = 0 => g.score[1] = 0
           /\ 0 <= g.score[1] /\ g.score[1] <= g.score[2]

\* C6 witness: a returned result with some tests passed and some not
C6_Witness ==
    /\ HasReturned
    /\ result.value.total = MaxTests
    /\ 0 < result.value.passed
    /\ result.value.passed < result.value.total


\* a pass-level-fatal return: run_grading returned before its loop (no
\* solution file, compile error, or no test cases)
FatalReturn == HasReturned /\ test_cases = <<>>

\* C7: every pass-level-fatal GradingResult carries score = 0, passed = 0,
\* total = 0, no TestResult and a non-empty compilation_error text, and only
\* these results have a compilation_error other than None.
C7_FatalResultShape ==
    HasReturned =>
       LET g == result.value
       IN  /\ FatalReturn =>
                /\ g.score = Zero /\ g.passed = 0 /\ g.total = 0
                /\ g.test_results = <<>>
                /\ ~g.compilation_error.isNone
                /\ g.compilation_error.text # ""
           /\ ~g.compilation_error.isNone => FatalReturn

\* the compile step of this pass failed
CompileFailedAt(j) ==
    /\ trace[j].ev = "compile"
    /\ \/ trace[j].out.kind = "timeout"
       \/ trace[j].out.kind = "exit" /\ trace[j].out.rc # 0

\* C8: a failed compilation (non-zero compiler exit, or the compile timeout)
\* ends the pass at once: the compile step is the last event of the history (no
\* enumeration, no candidate process, no grade request follows), the result
\* has no TestResult, and its compilation_error is the compiler's stderr (the
\* timeout text after a timeout).
C8_CompileErrorEndsPass ==
    \A j \in 1..Len(trace) :
       CompileFailedAt(j) =>
          /\ j = Len(trace)
          /\ EventsOf("list_tests") = {} /\ EventsOf("scan_local") = {}
          /\ EventsOf("spawn") = {} /\ EventsOf("grade_request") = {}
          /\ HasReturned
          /\ result.value.test_results = <<>>
          /\ result.value.total = 0
          /\ result.value.compilation_error =
                IF trace[j].out.kind = "timeout"
                THEN Str("Compilation timed out (>60s)")
                ELSE Str(trace[j].out.stderr)

\* C8 witness: the compiler exited non-zero with a diagnostic, and the pass
\* has returned carrying it
C8_Witness ==
    /\ HasReturned
    /\ Len(trace) = 1
    /\ CompileFailedAt(1)
    /\ trace[1].out.kind = "exit"
    /\ result.value.compilation_error = Str("error: expected ';'")

\* C9: per-test failures are scoped to one test.  While the loop runs there is
\* exactly one TestResult per test already handled, in enumeration order; no
\* test is started twice; and a result returned after enumeration has one
\* TestResult per enumerated id, in that order, with total = their number.
C9_OneResultPerTest ==
    /\ pc \in {"loop", "running", "grading"} =>
          /\ Len(test_results) = idx - 1
          /\ idx <= Len(test_cases) + 1
    /\ \A i \in 1..Len(test_results) :
          i <= Len(test_cases) /\ test_results[i].test_id = test_cases[i]
    /\ \A j, k \in EventsOf("spawn") : trace[j].test_id = trace[k].test_id => j = k
    /\ (HasReturned /\ test_cases # <<>>) =>
          /\ Len(result.value.test_results) = Len(test_cases)
          /\ result.value.total = Len(test_cases)
          /\ \A i \in 1..Len(test_cases) :
                result.value.test_results[i].test_id = test_cases[i]

\* C9 witness: the first test ended TLE, and the pass still returned a result
\* for every enumerated test, a later one AC
C9_Witness ==
    /\ HasReturned
    /\ Len(test_cases) = MaxTests
    /\ result.value.test_results[1].status = "TLE"
    /\ result.value.test_results[MaxTests].status = "AC"

\* C10: run_grading always returns a GradingResult and never raises.
C10_NeverRaises == result.ended # "raised"


\* the statuses of a TestResult (the comment of its status field)
Statuses == {"AC", "WA", "TLE", "RE", "CE"}

\* C11: every TestResult the runner produces has a status of the closed set
\* {AC, WA, TLE, RE, CE}, and its passed flag is true exactly when the status
\* is AC; in the running list and in the GradingResult returned.
C11_ClosedStatus ==
    /\ \A i \in 1..Len(test_results) :
          /\ test_results[i].status \in Statuses
          /\ test_results[i].passed <=> (test_results[i].status = "AC")
    /\ HasReturned =>
          \A i \in 1..Len(result.value.test_results) :
             /\ result.value.test_results[i].status \in Statuses
             /\ result.value.test_results[i].passed
                   <=> (result.value.test_results[i].status = "AC")

\* C11 witness: a returned result holding an AC test, and a test whose verdict
\* lookup raised (a 200 body that is no JSON object)
C11_Witness ==
    /\ HasReturned
    /\ \E i \in 1..Len(result.value.test_results) :
          result.value.test_results[i].status = "AC"
    /\ \E i \in 1..Len(result.value.test_results) :
          /\ result.value.test_results[i].status = "RE"
          /\ \E r \in RepliesFor(result.value.test_results[i].test_id) :
                r.body = "not_object"

\* the ends of the candidate process of test `id` the history holds
ExitsOf(id) == {j \in EventsOf("exit") : trace[j].test_id = id}

\* the candidate of test `id` exited with code 0
ZeroExit(id) ==
    \E j \in ExitsOf(id) : trace[j].out.kind = "exit" /\ trace[j].out.rc = 0

\* C12: the outcome mapping of one candidate run.  A non-zero exit code gives
\* RE with the process's stderr and a message holding the exit code; a process
\* that could not be started, or a missing input file, gives RE; a timeout gives
\* TLE with time_ms = time_limit_seconds * 1000; and a grade request is sent
\* only for a test whose candidate exited with code 0.
C12_OutcomeMapping ==
    /\ \A i \in 1..Len(test_results) :
          LET r == test_results[i]
          IN  /\ \A j \in ExitsOf(r.test_id) :
                    /\ (trace[j].out.kind = "exit" /\ trace[j].out.rc # 0) =>
                          /\ r.status = "RE" /\ ~r.passed
                          /\ r.stderr = trace[j].out.stderr
                          /\ r.message = Msg("Runtime error (exit code)",
                                             trace[j].out.rc)
                    /\ trace[j].out.kind = "timeout" =>
                          /\ r.status = "TLE" /\ ~r.passed
                          /\ r.time_ms = time_limit_seconds * 1000
              /\ (\E j \in EventsOf("spawn_failed") : trace[j].test_id = r.test_id)
                    => r.status = "RE"
              /\ ~InputExists(env, r.test_id) =>
                    /\ r.status = "RE"
                    /\ \A j \in EventsOf("spawn") : trace[j].test_id # r.test_id
    /\ \A j \in EventsOf("grade_request") :
          \E k \in ExitsOf(trace[j].test_id) :
             k < j /\ trace[k].out.kind = "exit" /\ trace[k].out.rc = 0

\* C12 witness: a returned result whose first test was killed by a signal
\* (exit code -11, RE) and whose last test ran out of time (TLE)
C12_Witness ==
    /\ HasReturned
    /\ Len(result.value.test_results) = MaxTests
    /\ result.value.test_results[1].message = Msg("Runtime error (exit code)", -11)
    /\ result.value.test_results[MaxTests].status = "TLE"
    /\ result.value.test_results[MaxTests].time_ms = 2000

\* C19: the tests of a pass run strictly one after the other.  At most one
\* candidate process is running; while one runs or its verdict is awaited the
\* TestResults of all earlier tests, and of no other, are complete; and a
\* candidate is started only after every earlier candidate has ended and every
\* earlier grade request has been answered.
C19_Sequential ==
    /\ Cardinality(EventsOf("spawn")) - Cardinality(EventsOf("exit"))
          = IF pc = "running" THEN 1 ELSE 0
    /\ pc \in {"running", "grading"} =>
          /\ idx <= Len(test_cases)
          /\ cur.test_id = test_cases[idx]
          /\ Len(test_results) = idx - 1
    /\ \A k \in EventsOf("spawn") : \A j \in 1..(k - 1) :
          /\ trace[j].ev = "spawn" =>
                \E m \in (j + 1)..(k - 1) :
                   trace[m].ev = "exit" /\ trace[m].test_id = trace[j].test_id
          /\ trace[j].ev = "grade_request" =>
                \E m \in (j + 1)..(k - 1) :
                   /\ trace[m].ev = "grade_response"
                   /\ trace[m].test_id = trace[j].test_id

\* C19 witness: the candidate of the second test is running, and the first
\* test has its verdict from the service
C19_Witness ==
    /\ pc = "running"
    /\ idx = 2
    /\ Len(test_results) = 1
    /\ test_results[1].status \in {"AC", "WA"}
    /\ RepliesFor(test_results[1].test_id) # {}

\* the number of events `ev` of test `id` in the history
CountOf(ev, id) == Cardinality({j \in EventsOf(ev) : trace[j].test_id = id})

\* C20: the Verdict Service is asked at most once per test.  Exactly one grade
\* request is sent for a test whose candidate exited with code 0 and none for
\* any other test (RE, TLE); a grade request gets at most one answer, and no
\* request follows it, whatever the answer was.
C20_OneGradeRequestPerTest ==
    \A id \in IdUniverse :
       /\ CountOf("grade_request", id) = IF ZeroExit(id) THEN 1 ELSE 0
       /\ CountOf("grade_response", id) <= CountOf("grade_request", id)
       /\ HasReturned =>
             CountOf("grade_response", id) = CountOf("grade_request", id)
       /\ \A j \in EventsOf("grade_response") : \A k \in EventsOf("grade_request") :
             (trace[j].test_id = id /\ trace[k].test_id = id) => k < j

\* C20 witness: the grade request of the first test timed out and the pass went
\* on; the last test ended RE and no grade request was sent for it
C20_Witness ==
    /\ HasReturned
    /\ Len(test_cases) = MaxTests
    /\ \E r \in RepliesFor(test_cases[1]) : r.kind = "timeout"
    /\ CountOf("grade_request", test_cases[1]) = 1
    /\ result.value.test_results[MaxTests].status = "RE"
    /\ ExitsOf(test_cases[MaxTests]) # {}
    /\ CountOf("grade_request", test_cases[MaxTests]) = 0

-----------------------------------------------------------------------------
(* Properties of the Verdict Service (specification SpecGrade).            *)

Answered == request # NoRequest

\* the request gets as far as the checker (lines 156-165)
ReachesChecker(st, req) ==
    /\ req.body = "object" /\ req.problem_id # "" /\ req.test_id # <<>>
    /\ InputFile(st, req.problem_id, req.test_id).exists
    /\ InputFile(st, req.problem_id, req.test_id).readable
    /\ OutputFile(st, req.problem_id, req.test_id).exists
    /\ OutputFile(st, req.problem_id, req.test_id).readable

\* an exception is raised inside the checker of the request: one that leaves
\* default_checker, or one raised in the try block of a certificate checker
ExceptionInChecker(st, req) ==
    /\ ReachesChecker(st, req)
    /\ LET i == InputFile(st, req.problem_id, req.test_id).text
           e == OutputFile(st, req.problem_id, req.test_id).text
       IN  CASE get_checker(req.problem_id) = "default_checker" ->
                   default_checker(req.problem_id, i, e, req.actual).exc # "none"
             [] get_checker(req.problem_id) = "checker_pastele" ->
                   PasteleBody(i, e, req.actual).exc # "none"

\* the values of a message that were taken from the stored files
Echoed(message) ==
    { message.args[j].val : j \in { l \in 1..Len(message.args) :
                                      message.args[l].src \in {"input", "expected"} } }

\* C2: grade never echoes stored test data.  Whenever a checker returned a
\* verdict (AC or WA), the message of the response holds no line, token or
\* value taken from the stored input or expected-output file.
C2_NoEchoInVerdict ==
    (Answered /\ ReachesChecker(store, request)
              /\ ~ExceptionInChecker(store, request)) =>
       Echoed(response.message) = {}

\* C3: an exception raised inside a checker is caught: the request is answered
\* (status 200, a JSON body) with verdict = WA and passed = false, never AC.
C3_CheckerExceptionIsWA ==
    (Answered /\ ExceptionInChecker(store, request)) =>
       /\ response.status = 200
       /\ response.verdict = "WA"
       /\ response.passed = FALSE

\* C3 witness: default_checker raised on an actual_output that is no string,
\* and the request was answered WA
C3_Witness ==
    /\ Answered
    /\ ExceptionInChecker(store, request)
    /\ get_checker(request.problem_id) = "default_checker"
    /\ ~request.actual.isStr
    /\ response.verdict = "WA"

\* C4: when a checker fails internally the message is the generic checker
\* error text and holds no content of the stored input or expected output.
C4_GenericCheckerError ==
    (Answered /\ ExceptionInChecker(store, request)) =>
       /\ response.message.fmt = "Checker error: {}"
       /\ Echoed(response.message) = {}

\* the request has no problem_id or no test_id: the key is missing or empty, or
\* the body is no JSON object that could hold it
LacksIds(req) ==
    req.body # "object" \/ req.problem_id = "" \/ req.test_id = <<>>

Rejected(status) ==
    /\ response.status = status
    /\ response.verdict = "WA"
    /\ response.passed = FALSE

\* C15: grade rejects a request it cannot resolve, never with AC: 400 for a
\* request without problem_id or test_id, 404 when the input file or the
\* expected-output file is absent, 500 when reading them fails, each with
\* verdict = WA and passed = false; and in every response passed is true
\* exactly when verdict is AC.
C15_RejectsUnresolvable ==
    Answered =>
       LET i == InputFile(store, request.problem_id, request.test_id)
           o == OutputFile(store, request.problem_id, request.test_id)
       IN  /\ LacksIds(request) => Rejected(400)
           /\ (~LacksIds(request) /\ (~i.exists \/ ~o.exists)) => Rejected(404)
           /\ (~LacksIds(request) /\ i.exists /\ o.exists
                  /\ ~(i.readable /\ o.readable)) => Rejected(500)
           /\ response.passed <=> (response.verdict = "AC")

-----------------------------------------------------------------------------
(* Properties of output normalisation (specification SpecNorm).            *)

\* C16: output normalisation is idempotent and total: applied to its own
\* result, the runner's _normalize_output and the service's normalize_output
\* each give that result again, for every text.
C16_NormalizeIdempotent ==
    response.stage = "twice" =>
       /\ response.runner = response.runner_prev
       /\ response.server = response.server_prev

\* C16 witness: a text with "\r\n", trailing blanks and a trailing empty line
\* was normalised twice, to a text that differs from it
C16_Witness ==
    /\ response.stage = "twice"
    /\ request = <<"a", " ", CR, LF>>
    /\ response.runner = <<"a">>
    /\ response.server = <<"a">>

\* C17: grade calls the checker with the stored expected output in normal form
\* (what the Output Normalizer makes of the file's text), not with the raw
\* content of the file.
C17_ExpectedIsNormalized ==
    response.stage = "given" =>
       /\ response.given = normalize_output(read_text(request))
       /\ response.given = _normalize_output(response.given)

-----------------------------------------------------------------------------
(* The Verdict Service handling requests in threads (specification         *)
(* SpecServe): app.run(threaded=True) gives every request a thread of its  *)
(* own; GET /list_tests and POST /grade run over the same protected tree.  *)

\* the number of requests in progress at once
MaxThreads == 2

Threads == 1..MaxThreads

\* the ids that occur as file stems under inputs/: "2", "10", "a" and the
\* superscript two
ListIds == IdUniverse \cup { <<SuperTwo>> }

\* the protected tree with the directory inputs/{problem_id}: kind tells
\* whether that path is missing, a regular file or a directory, names are the
\* <<stem, suffix>> of the files in it
Tree(st, kind, names) ==
    [problem_id |-> st.problem_id, test_id |-> st.test_id, input |-> st.input,
     output |-> st.output, dir |-> kind, names |-> names]

\* INPUTS_DIR / problem_id
InputDir(st, problem_id) ==
    IF problem_id = st.problem_id THEN [kind |-> st.dir, names |-> st.names]
    ELSE [kind |-> "missing", names |-> {}]

\* the answer of list_tests: the status, the keys of the body, tests and count
ListReply(status, body, tests, count) ==
    [status |-> status, body |-> body, tests |-> tests, count |-> count]

\* list_tests, lines 59-82; iterdir() on a path that is no directory raises
\* NotADirectoryError, which no handler catches: Flask answers 500
list_tests(st, problem_id) ==
    LET input_dir == InputDir(st, problem_id)
    IN  IF input_dir.kind = "missing"
        THEN ListReply(404, "error", <<>>, 0)
        ELSE IF input_dir.kind = "file"
        THEN ListReply(500, "none", <<>>, 0)
        ELSE LET tests == SortIds({n[1] : n \in {f \in input_dir.names : f[2] = ".txt"}})
             IN  ListReply(200, "problem_id, tests, count", tests, Len(tests))

\* the stored test of "pastele" (N=3, K=2, crayons black, black, grey; the
\* expected colorfulness 0) and of "sum" (expected 42)
PasteleTest ==
    Store("pastele", StoredTest, Readable(<< <<I(3), I(2)>>, Black, Black, Grey >>),
          Readable(<< <<I(0)>> >>))

SumTest ==
    Store("sum", StoredTest, Readable(<< <<I(1), I(41)>> >>), Readable(<< <<I(42)>> >>))

\* the same problem with no stored test
Without(st) == Store(st.problem_id, st.test_id, NoFile, NoFile)

\* the trees: a directory with any of the ids as .txt files beside a file that
\* is no test, a missing directory, and a regular file in its place
Trees ==
    { Tree(IF StoredTest \in S THEN st ELSE Without(st), "ok",
           {<<x, ".txt">> : x \in S} \cup {<<<<"a">>, ".md">>}) :
        st \in {PasteleTest, SumTest}, S \in SUBSET ListIds }
    \cup { Tree(Without(SumTest), "missing", {}), Tree(Without(SumTest), "file", {}) }

\* GET /list_tests/{problem_id}, written as a request
ListRequest(problem_id) == Request("list", problem_id, <<>>, NotAString)

\* the requests sent to a service holding the tree st
ServeRequests(st) ==
    { Request("object", st.problem_id, st.test_id, Text(a)) :
        a \in IF st.problem_id = "pastele"
              THEN { << <<I(0)>>, Black, Black >>, << <<I(0)>>, Grey, Grey >>,
                     << <<I(10)>>, Black, Grey >> }
              ELSE { << <<I(42)>> >>, << <<I(41)>> >> } }
    \cup { Request("object", st.problem_id, <<"a", "a">>, Text(<< <<I(42)>> >>)) }
    \cup { ListRequest(p) : p \in {st.problem_id, "nosuch"} }

\* a thread of the service: its position, its request and its local `count`
Handler(at, req, count, overlapped) ==
    [pc |-> at, req |-> req, count |-> count, overlapped |-> overlapped]

IdleHandler == Handler("idle", NoRequest, <<>>, FALSE)

\* the array `count` of every request that is between counting and verifying,
\* as one array would hold them
RECURSIVE CountsUpTo(_, _)
CountsUpTo(h, n) ==
    IF n = 0 THEN <<>>
    ELSE CountsUpTo(h, n - 1) \o (IF h[n].pc = "counted" THEN h[n].count ELSE <<>>)

\* `count` as an array of the module, shared by the requests in progress
CountSeen_shared(h, t) == CountsUpTo(h, MaxThreads)

\* checkers.py line 89: `count` is a local of the call, one per request
CountSeen(h, t) == h[t].count

\* the request runs checker_pastele and gets as far as its count array
StartsCounting(st, req) ==
    /\ req.body = "object"
    /\ ReachesChecker(st, req)
    /\ get_checker(req.problem_id) = "checker_pastele"
    /\ PasteleParse(InputFile(st, req.problem_id, req.test_id).text,
                    req.actual).err.exc = "none"

\* checker_pastele returns (its except included) and grade answers
PasteleAnswer(r) ==
    CheckerReturned(IF r.exc # "none" THEN CheckerError(r) ELSE r)

InitServe ==
    /\ store \in Trees
    /\ request = [t \in Threads |-> IdleHandler]
    /\ response = [t \in Threads |-> NoResponse]
    /\ IdleRunner

\* POST /grade arrives at a free thread, which runs grade up to the answer, or
\* up to the filled count array when the checker is checker_pastele
GradeArrives ==
    /\ \E t \in Threads :
          /\ request[t].pc = "idle"
          /\ \E req \in {r \in ServeRequests(store) : r.body # "list"} :
                IF StartsCounting(store, req)
                THEN /\ request' =
                          [request EXCEPT ![t] =
                             Handler("counted", req,
                                     PasteleParse(InputFile(store, req.problem_id,
                                                            req.test_id).text,
                                                  req.actual).crayons,
                                     FALSE)]
                     /\ UNCHANGED response
                ELSE /\ request' = [request EXCEPT ![t] =
                                       Handler("replied", req, <<>>, FALSE)]
                     /\ response' = [response EXCEPT ![t] = grade(store, req)]
    /\ UNCHANGED store
    /\ UNCHANGED runnerVars

\* the thread verifies the claimed crayons against its count array and answers
GradeChecks ==
    /\ \E t \in Threads :
          /\ request[t].pc = "counted"
          /\ LET req == request[t].req
                 r   == PasteleVerify(InputFile(store, req.problem_id, req.test_id).text,
                                      OutputFile(store, req.problem_id, req.test_id).text,
                                      req.actual, CountSeen(request, t))
             IN  /\ response' = [response EXCEPT ![t] = PasteleAnswer(r)]
                 /\ request' =
                      [request EXCEPT ![t] =
                         Handler("replied", req, request[t].count,
                                 \E u \in Threads \ {t} : request[u].pc = "counted")]
    /\ UNCHANGED store
    /\ UNCHANGED runnerVars

\* GET /list_tests/{problem_id} arrives at a free thread and is answered
ListTests ==
    /\ \E t \in Threads :
          /\ request[t].pc = "idle"
          /\ \E req \in {r \in ServeRequests(store) : r.body = "list"} :
                /\ request' = [request EXCEPT ![t] =
                                  Handler("replied", req, <<>>, FALSE)]
                /\ response' = [response EXCEPT ![t] =
                                   list_tests(store, req.problem_id)]
    /\ UNCHANGED store
    /\ UNCHANGED runnerVars

\* the answer is sent and the thread ends
Reply ==
    /\ \E t \in Threads :
          /\ request[t].pc = "replied"
          /\ request' = [request EXCEPT ![t] = IdleHandler]
          /\ response' = [response EXCEPT ![t] = NoResponse]
    /\ UNCHANGED store
    /\ UNCHANGED runnerVars

NextServe ==
    \/ GradeArrives
    \/ GradeChecks
    \/ ListTests
    \/ Reply

SpecServe == InitServe /\ [][NextServe]_vars

-----------------------------------------------------------------------------
(* Properties of the threaded service (specification SpecServe).           *)

\* the threads whose list_tests request has been answered
Listed == {t \in Threads : request[t].pc = "replied" /\ request[t].req.body = "list"}

\* the ids of the .txt files of the directory of problem_id
TestIds(st, problem_id) ==
    {n[1] : n \in {f \in InputDir(st, problem_id).names : f[2] = ".txt"}}

\* an id made only of the digits 0..9
Numeric(x) == Len(x) > 0 /\ \A i \in 1..Len(x) : IsAsciiDigit(x[i])

\* C13: list_tests returns the ids of the problem's input files, each once,
\* the ids made only of digits first in ascending integer value, then all other
\* ids in ascending lexicographic order; count is the number of ids.
C13_ListOrder ==
    \A t \in Listed :
       response[t].status = 200 =>
          LET ids == response[t].tests
          IN  /\ {ids[i] : i \in 1..Len(ids)} = TestIds(store, request[t].req.problem_id)
              /\ Len(ids) = Cardinality(TestIds(store, request[t].req.problem_id))
              /\ response[t].count = Len(ids)
              /\ \A i, j \in 1..Len(ids) :
                    i < j =>
                       /\ Numeric(ids[j]) => Numeric(ids[i])
                       /\ (Numeric(ids[i]) /\ Numeric(ids[j]))
                             => IntVal(ids[i]) < IntVal(ids[j])
                       /\ (~Numeric(ids[i]) /\ ~Numeric(ids[j]))
                             => StrLess(ids[i], ids[j])

\* C14: list_tests answers 404 with an {error} body exactly when the input
\* directory of the problem does not exist, and 200 with {problem_id, tests,
\* count} otherwise, an empty list for a directory without test files.
C14_ListStatus ==
    \A t \in Listed :
       IF InputDir(store, request[t].req.problem_id).kind # "ok"
       THEN response[t].status = 404 /\ response[t].body = "error"
       ELSE /\ response[t].status = 200
            /\ response[t].body = "problem_id, tests, count"
            /\ TestIds(store, request[t].req.problem_id) = {} => response[t].tests = <<>>

\* the answer the request gets when it is the only one the service handles
Alone(st, req) ==
    IF req.body = "list" THEN list_tests(st, req.problem_id) ELSE grade(st, req)

\* C18: requests handled at the same time are independent.  Whatever the
\* interleaving of grade and list_tests requests, each answer is the one the
\* request gets when handled alone on the same stored data, and a request's
\* count array holds the crayons of its own input only.
C18_RequestsIndependent ==
    \A t \in Threads :
       /\ request[t].pc = "replied" => response[t] = Alone(store, request[t].req)
       /\ request[t].pc = "counted" =>
             CountSeen(request, t) =
                PasteleParse(InputFile(store, request[t].req.problem_id,
                                       request[t].req.test_id).text,
                             request[t].req.actual).crayons

\* C18 witness: a grade request that claims the one grey crayon twice was
\* verified, and refused, while another request had its count array filled;
\* a list_tests request is answered at the same time
C18_Witness ==
    \E t, u \in Threads :
       /\ t # u
       /\ request[t].pc = "replied"
       /\ request[t].overlapped
       /\ response[t].verdict = "WA"
       /\ response[t].message.fmt = "Crayon ({}, {}, {}) not available"
       /\ request[u].pc = "replied"
       /\ request[u].req.body = "list"
       /\ response[u].status = 200


-----------------------------------------------------------------------------
(* The checkers applied to test data (specification SpecCheck): a checker  *)
(* is looked up for a problem id and called with the stored input, the     *)
(* stored expected output and a candidate's output; the interval counter   *)
(* is applied to a list of intervals.                                      *)

\* the most cuts in a candidate's output for "rez"
MaxCuts == 3

\* the most intervals in a list given to the interval counter
MaxIntervals == 3

\* the largest endpoint of those intervals
MaxSong == 4

\* checker(problem_id, input_data, expected, actual), or the interval counter
\* called with a list of intervals
Call(kind, problem_id, input_data, expected, actual) ==
    [kind |-> kind, problem_id |-> problem_id, input |-> input_data,
     expected |-> expected, actual |-> actual]

\* where a call stands: the checker looked up, what it returned, the count
Checked(stage, checker, r, count) ==
    [stage |-> stage, checker |-> checker, result |-> r, count |-> count]

\* the cuts of the candidates: across, the same reversed, down, the two
\* diagonals, one along the top edge, one ending inside the cake, and lines
\* that are no cuts
Across == <<I(-Half), I(0), I(Half), I(0)>>

AcrossBack == <<I(Half), I(0), I(-Half), I(0)>>

Down == <<I(0), I(-Half), I(0), I(Half)>>

Diagonal == <<I(-Half), I(-Half), I(Half), I(Half)>>

TopEdge == <<I(-Half), I(Half), I(Half), I(Half)>>

Inside == <<I(Grid), I(0), I(-Half), I(0)>>

RezLines ==
    { Across, AcrossBack, Down, Diagonal, TopEdge, Inside,
      <<I(0), W(1), I(0), I(Half)>>, <<I(0), I(Half)>> }

\* stored tests of "rez": K pieces wanted, the least N that gives them
RezTests == { <<2, 1>>, <<3, 2>>, <<4, 2>>, <<7, 3>> }

\* the first line of a candidate for a test with answer n
RezFirstLines(n) == { <<I(n)>>, <<I(1)>>, <<W(1)>> }

\* stored tests of "kolekcija": N = 4 songs, K = 2 on a screen, M = 2 played;
\* the songs played and the least number of disk accesses
KolekcijaTests == { <<1, 3, 3>>, <<3, 1, 3>>, <<2, 2, 2>>, <<1, 4, 4>> }

KolekcijaLines ==
    { <<I(1), I(2)>>, <<I(2), I(3)>>, <<I(3), I(4)>>, <<I(1), I(3)>>,
      <<I(0), I(1)>>, <<I(4), I(5)>>, <<I(1), W(2)>>, <<I(1)>> }

KolekcijaFirstLines(n) == { <<I(n)>>, <<I(2)>>, <<W(1)>> }

\* numbers on both sides of the tolerance of the default checker
TolValues == {0, 1, 999999, 1000000, 1000001, 2000000, -1000000}

TolLines ==
    { <<I(a)>> : a \in TolValues }
    \cup { <<I(a), I(b)>> : a \in {1, 1000000}, b \in TolValues }
    \cup { <<W(1)>>, <<>> }

\* problem ids with no checker registered under exactly that key
OtherIds == {"sum", "Pastele", "pastele ", ""}

\* a crayon that differs from Black in one channel, and not the first
Green == <<I(0), I(10), I(0)>>

\* stored tests of "pastele", <<input, expected>>: those of PasteleInputs
\* with the answer 0, and well-formed ones with the answers 10 and with an
\* expected output that is no number
PasteleTests ==
    { <<i, << <<I(0)>> >> >> : i \in PasteleInputs }
    \cup { << << <<I(3), I(2)>>, Black, Black, Grey >>, << <<I(10)>> >> >>,
           << << <<I(3), I(2)>>, Black, Black, Grey >>, << <<W(9)>> >> >>,
           << << <<I(2), I(2)>>, Black, Green >>, << <<I(10)>> >> >>,
           << << <<I(3), I(2)>>, Black, Black, Green >>, << <<I(0)>> >> >> }

CheckCrayonLines ==
    { Black, Grey, Green, <<I(255), I(0), I(0)>>, <<I(300), I(0), I(0)>>,
      <<I(0), I(0)>>, <<I(0), W(1), I(0)>> }

\* an interval [a, b] with 1 <= a <= b <= MaxSong
Intervals == { p \in (1..MaxSong) \X (1..MaxSong) : p[1] <= p[2] }

NoVerdict == Verdict(FALSE, "", <<>>)

\* the calls: a checker with a stored test and the output of a candidate, a
\* certificate checker with an actual_output that is no string, and the
\* interval counter with a list of intervals in any order
InitCheck ==
    /\ \/ \E t \in PasteleTests, first \in PasteleFirstLines,
             rest \in TextsOf(CheckCrayonLines, MaxLines) :
             request = Call("check", "pastele", t[1], t[2], Text(<<first>> \o rest))
       \/ \E t \in RezTests, rest \in TextsOf(RezLines, MaxCuts) :
             \E first \in RezFirstLines(t[2]) :
                request = Call("check", "rez", << <<I(t[1])>> >>, << <<I(t[2])>> >>,
                               Text(<<first>> \o rest))
       \/ \E t \in KolekcijaTests, rest \in TextsOf(KolekcijaLines, MaxLines) :
             \E first \in KolekcijaFirstLines(t[3]) :
                request = Call("check", "kolekcija",
                               << <<I(4), I(2)>>, <<I(2)>>, <<I(t[1])>>, <<I(t[2])>> >>,
                               << <<I(t[3])>> >>, Text(<<first>> \o rest))
       \/ \E p \in OtherIds, e \in TolLines, a \in TolLines :
             request = Call("check", p, << <<I(1)>> >>, <<e>>, Text(<<a>>))
       \/ \E p \in {"pastele", "rez", "kolekcija", "sum"} :
             request = Call("check", p, << <<I(1)>> >>, << <<I(1)>> >>, NotAString)
       \/ \E l \in TextsOf(Intervals, MaxIntervals) :
             request = Call("intervals", "kolekcija", <<>>, <<>>, l)
    /\ response = Checked("called", "", NoVerdict, 0)
    /\ store = <<>>
    /\ IdleRunner

\* checker = get_checker(problem_id)
SelectChecker ==
    /\ request.kind = "check"
    /\ response.stage = "called"
    /\ response' = Checked("selected", get_checker(request.problem_id),
                           NoVerdict, 0)
    /\ UNCHANGED <<request, store>>
    /\ UNCHANGED runnerVars

\* passed, message = checker(problem_id, input_data, expected, actual)
RunSelected ==
    /\ request.kind = "check"
    /\ response.stage = "selected"
    /\ response' = Checked("returned", response.checker,
                           RunChecker(response.checker, request.problem_id,
                                      request.input, request.expected,
                                      request.actual), 0)
    /\ UNCHANGED <<request, store>>
    /\ UNCHANGED runnerVars

\* distinct_count = _count_distinct_in_intervals(intervals)
CountIntervals ==
    /\ request.kind = "intervals"
    /\ response.stage = "called"
    /\ response' = Checked("counted", "", NoVerdict,
                           _count_distinct_in_intervals(request.actual))
    /\ UNCHANGED <<request, store>>
    /\ UNCHANGED runnerVars

NextCheck ==
    \/ SelectChecker
    \/ RunSelected
    \/ CountIntervals

SpecCheck == InitCheck /\ [][NextCheck]_vars

\* the call has returned with (True, "OK")
Accepted == response.stage = "returned" /\ response.result.passed

\* C21: get_checker is total: the checker registered under exactly the given
\* key for "pastele", "rez" and "kolekcija", the default checker for every
\* other problem id, whatever its spelling.
C21_GetCheckerTotal ==
    response.stage \in {"selected", "returned"} =>
        /\ request.problem_id = "pastele" => response.checker = "checker_pastele"
        /\ request.problem_id = "rez" => response.checker = "checker_rez"
        /\ request.problem_id = "kolekcija" => response.checker = "checker_kolekcija"
        /\ request.problem_id \notin {"pastele", "rez", "kolekcija"}
              => response.checker = "default_checker"

C21_Witness ==
    /\ response.stage = "selected"
    /\ request.problem_id = "Pastele"
    /\ response.checker = "default_checker"

\* the default checker has compared two one-line texts token by token as numbers
ComparedAsFloats ==
    /\ response.stage = "returned"
    /\ response.checker = "default_checker"
    /\ request.actual.isStr
    /\ ParsesAsFloats(request.expected[1])
    /\ ParsesAsFloats(request.actual.text[1])
    /\ Len(request.expected[1]) = Len(request.actual.text[1])
    /\ Len(request.expected[1]) > 0

\* |a - b| <= max(1e-9, 1e-6 * |b|) for integers a (expected) and b (actual)
WithinToleranceOfActual(a, b) == Abs(a - b) <= Abs(b) \div rel_tol_inv

\* C22: the default checker accepts a pair of numeric tokens a (expected) and
\* b (actual) exactly when |a - b| <= max(1e-9, 1e-6 * |b|), and a line passes
\* exactly when every pair of it is accepted.
C22_ToleranceOnActual ==
    ComparedAsFloats =>
        (response.result.passed <=>
            \A j \in 1..Len(request.expected[1]) :
                WithinToleranceOfActual(request.expected[1][j].v,
                                        request.actual.text[1][j].v))

\* checker_pastele has accepted a claim made against a stored input whose
\* crayons have their coordinates in the domain 0..255
PasteleAccepted ==
    /\ Accepted
    /\ response.checker = "checker_pastele"
    /\ \A i \in 2..Len(request.input) : \A j \in 1..Len(request.input[i]) :
          0 <= request.input[i][j].v /\ request.input[i][j].v < ColorDomain

\* the crayon written on line i of a text
CrayonOf(text, i) == <<text[i][1].v, text[i][2].v, text[i][3].v>>

\* the N crayons of the stored input
InputCrayons ==
    [i \in 1..request.input[1][1].v |-> CrayonOf(request.input, i + 1)]

\* the K crayons the candidate claims
ClaimedCrayons ==
    [i \in 1..request.input[1][2].v |-> CrayonOf(request.actual.text, i + 1)]

ChannelDistance(c, d) ==
    Max2(Abs(c[1] - d[1]), Max2(Abs(c[2] - d[2]), Abs(c[3] - d[3])))

\* the largest distance of two crayons of cs
PairwiseMax(cs) ==
    CHOOSE m \in {ChannelDistance(cs[i], cs[j]) : i, j \in 1..Len(cs)} :
        \A i, j \in 1..Len(cs) : ChannelDistance(cs[i], cs[j]) <= m

\* C24: whenever checker_pastele accepts, the claimed colorfulness equals the
\* expected one and equals the largest per-channel difference
\* max(|dR|, |dG|, |dB|) over all pairs of the K claimed crayons.
C24_Colorfulness ==
    PasteleAccepted =>
        /\ request.actual.text[1][1].v = request.expected[1][1].v
        /\ request.actual.text[1][1].v = PairwiseMax(ClaimedCrayons)

\* accepted with two crayons that differ, and not in the first channel
C24_Witness ==
    /\ PasteleAccepted
    /\ Len(ClaimedCrayons) = 2
    /\ ClaimedCrayons[1][1] = ClaimedCrayons[2][1]
    /\ PairwiseMax(ClaimedCrayons) = 10

\* checker_rez has returned on a candidate's output
RezReturned ==
    /\ response.stage = "returned"
    /\ response.checker = "checker_rez"
    /\ request.actual.isStr

\* line i of the candidate's output is four integers
IsCutLine(i) ==
    /\ Len(request.actual.text[i]) = 4
    /\ \A j \in 1..4 : request.actual.text[i][j].k = "int"

\* the candidate's output is N and N cuts, N the stored answer
CutsFollow ==
    /\ IsIntLine(request.actual.text[1])
    /\ request.actual.text[1][1].v = request.expected[1][1].v
    /\ Len(request.actual.text) >= request.expected[1][1].v + 1
    /\ \A i \in 2..(request.expected[1][1].v + 1) : IsCutLine(i)

\* the cuts written, in units of Grid
CutsWritten ==
    [i \in 1..request.expected[1][1].v |->
        [j \in 1..4 |-> U(request.actual.text[i + 1][j].v)]]

\* twice the signed area of the triangle p, q, r
Orient(px, py, qx, qy, rx, ry) == (qx - px) * (ry - py) - (qy - py) * (rx - px)

\* the ends of each cut lie strictly on opposite sides of the other cut
Crosses(c, d) ==
    /\ Orient(c[1], c[2], c[3], c[4], d[1], d[2])
         * Orient(c[1], c[2], c[3], c[4], d[3], d[4]) < 0
    /\ Orient(d[1], d[2], d[3], d[4], c[1], c[2])
         * Orient(d[1], d[2], d[3], d[4], c[3], c[4]) < 0

CrossingPairs(cuts) ==
    {p \in (1..Len(cuts)) \X (1..Len(cuts)) :
        p[1] < p[2] /\ Crosses(cuts[p[1]], cuts[p[2]])}

\* C25: checker_rez accepts exactly when the claimed N equals the expected N,
\* N well-formed cuts follow, every endpoint has max(|x|, |y|) = 5000, and
\* 1 + N + I >= K, where I is the number of pairs of cuts that are not
\* parallel and meet strictly inside the open square.
C25_RezRule ==
    RezReturned =>
        (response.result.passed <=>
            /\ CutsFollow
            /\ \A i \in 1..Len(CutsWritten) :
                  /\ Max2(Abs(CutsWritten[i][1]), Abs(CutsWritten[i][2])) = U(Half)
                  /\ Max2(Abs(CutsWritten[i][3]), Abs(CutsWritten[i][4])) = U(Half)
            /\ 1 + Len(CutsWritten) + Cardinality(CrossingPairs(CutsWritten))
                  >= request.input[1][1].v)

\* two crossing cuts accepted for K = 4
C25_Witness ==
    /\ RezReturned
    /\ response.result.passed
    /\ request.input[1][1].v = 4
    /\ Cardinality(CrossingPairs(CutsWritten)) = 1

\* the interval counter has returned
Counted == response.stage = "counted"

\* the integers covered by the intervals of a list
Covered(intervals) ==
    UNION { intervals[i][1]..intervals[i][2] : i \in 1..Len(intervals) }

\* checker_kolekcija has accepted
KolekcijaAccepted == Accepted /\ response.checker = "checker_kolekcija"

\* the M intervals the candidate wrote
IntervalsWritten ==
    [i \in 1..request.input[2][1].v |->
        <<request.actual.text[i + 1][1].v, request.actual.text[i + 1][2].v>>]

\* C26: _count_distinct_in_intervals returns the number of distinct integers
\* in the union of the intervals, for every list of intervals [a, b] with
\* a <= b in any order, and checker_kolekcija accepts only if that number
\* equals the claimed and the expected number of disk accesses.
C26_DistinctCount ==
    /\ Counted => response.count = Cardinality(Covered(request.actual))
    /\ KolekcijaAccepted =>
          /\ request.actual.text[1][1].v = Cardinality(Covered(IntervalsWritten))
          /\ request.expected[1][1].v = Cardinality(Covered(IntervalsWritten))

\* counted: a long interval given before a shorter one it contains, and a
\* third one apart from both
C26_Witness ==
    /\ Counted
    /\ Len(request.actual) = 3
    /\ request.actual[1] = <<1, 4>>
    /\ request.actual[2] = <<2, 2>>
    /\ response.count = 4

\* a certificate checker has returned
CertificateChecked ==
    /\ response.stage = "returned"
    /\ response.checker \in {"checker_pastele", "checker_rez", "checker_kolekcija"}

\* lines 2..n+1 of the text t are there, each of w integers within lo..hi
LinesOfInts(t, n, w, lo, hi) ==
    /\ Len(t) >= n + 1
    /\ \A i \in 2..(n + 1) :
          /\ Len(t[i]) = w
          /\ \A j \in 1..w : t[i][j].k = "int" /\ lo <= t[i][j].v /\ t[i][j].v <= hi

\* the candidate's output has the format of the problem: a number, then K
\* crayons with coordinates in 0..255, or N cuts with endpoints on the
\* boundary, or M intervals within 1..n
WellFormedActual ==
    /\ request.actual.isStr
    /\ IsIntLine(request.actual.text[1])
    /\ CASE response.checker = "checker_pastele" ->
              /\ Len(request.input[1]) = 2
              /\ LinesOfInts(request.actual.text, request.input[1][2].v, 3,
                             0, ColorDomain - 1)
         [] response.checker = "checker_rez" ->
              /\ LinesOfInts(request.actual.text, request.actual.text[1][1].v, 4,
                             -Half, Half)
              /\ \A i \in 2..(request.actual.text[1][1].v + 1) :
                    /\ Max2(Abs(request.actual.text[i][1].v),
                            Abs(request.actual.text[i][2].v)) = Half
                    /\ Max2(Abs(request.actual.text[i][3].v),
                            Abs(request.actual.text[i][4].v)) = Half
         [] response.checker = "checker_kolekcija" ->
              LinesOfInts(request.actual.text, request.input[2][1].v, 2,
                          1, request.input[1][1].v)

Divides(c) ==
    /\ ~(c[1] = c[3] /\ Abs(c[1]) = U(Half))
    /\ ~(c[2] = c[4] /\ Abs(c[2]) = U(Half))

\* two cuts along the same segment, in either direction
SameSegment(c, d) ==
    { <<c[1], c[2]>>, <<c[3], c[4]>> } = { <<d[1], d[2]>>, <<d[3], d[4]>> }

\* the point where c meets d is c's first end + (MeetNum / MeetDen) of the way
\* to its second end
MeetNum(c, d) ==
    (d[1] - c[1]) * (d[4] - d[2]) - (d[2] - c[2]) * (d[3] - d[1])

MeetDen(c, d) ==
    (c[3] - c[1]) * (d[4] - d[2]) - (c[4] - c[2]) * (d[3] - d[1])

\* c meets d and e at the same point
SamePoint(c, d, e) == MeetNum(c, d) * MeetDen(c, e) = MeetNum(c, e) * MeetDen(c, d)

\* cut i is the first along its segment and passes through the inside
NewCut(cuts, i) ==
    /\ Divides(cuts[i])
    /\ \A j \in 1..(i - 1) : ~SameSegment(cuts[i], cuts[j])

\* the points inside the cake where cut i crosses the cuts before it, each
\* named by the first cut that passes through it
NewCrossings(cuts, i) ==
    {j \in 1..(i - 1) :
        /\ Crosses(cuts[i], cuts[j])
        /\ \A l \in 1..(j - 1) :
              ~(Crosses(cuts[i], cuts[l]) /\ SamePoint(cuts[i], cuts[j], cuts[l]))}

\* the pieces the cuts divide the cake into: a new cut through the inside
\* adds one piece, and one more for every point at which it crosses the cuts
\* made before
Pieces(cuts) ==
    1 + Cardinality({i \in 1..Len(cuts) : NewCut(cuts, i)})
      + Cardinality({p \in (1..Len(cuts)) \X (1..Len(cuts)) :
                        NewCut(cuts, p[1]) /\ p[2] \in NewCrossings(cuts, p[1])})

\* C28: whenever checker_rez accepts, the cuts written divide the cake into at
\* least K pieces, also when a cut is written twice, runs along an edge of
\* the cake, or three cuts pass through one point.
C28_AcceptedCutsDivide ==
    (RezReturned /\ response.result.passed) =>
        Pieces(CutsWritten) >= request.input[1][1].v

-----------------------------------------------------------------------------
(* Enumeration of the tests by the Grading Runner (specification Spec).    *)

\* every grade request of the pass went unanswered: the service is down
ServiceDown ==
    \A j \in EventsOf("grade_response") : trace[j].resp.kind \in {"conn_error", "timeout"}

\* the candidate was started, or starting it was tried, for test `id`
Attempted(id) ==
    \E j \in EventsOf("spawn") \cup EventsOf("spawn_failed") : trace[j].test_id = id

\* C29: enumeration asks the service first and returns the service's list when
\* it answers 200 with a non-empty list; the local directory is scanned only
\* when the service failed, answered another status or gave no test; and when
\* the pass has fallen back while the service is down, the local tests are
\* still run and each ends with a result that did not pass.
C29_ServiceFirst ==
    /\ \A j \in EventsOf("scan_local") :
          /\ j > 1
          /\ trace[j - 1].ev = "list_tests"
          /\ ~Usable(trace[j - 1].resp)
    /\ \A j \in EventsOf("list_tests") :
          Usable(trace[j].resp) =>
              /\ test_cases = trace[j].resp.tests
              /\ EventsOf("scan_local") = {}
    /\ (EventsOf("scan_local") # {} /\ result.ended = "no" /\ pc # "enumerate") =>
          test_cases = SortIds(env.files)
    /\ (HasReturned /\ EventsOf("scan_local") # {} /\ ServiceDown
          /\ test_cases # <<>>) =>
          /\ test_cases = SortIds(env.files)
          /\ Len(result.value.test_results) = Len(test_cases)
          /\ \A i \in 1..Len(test_cases) :
                /\ result.value.test_results[i].test_id = test_cases[i]
                /\ ~result.value.test_results[i].passed
                /\ Attempted(test_cases[i])
          /\ result.value.passed = 0

\* the service was down from the start: the local tests were found, every
\* candidate ran to exit code 0 and every grade request failed
C29_Witness ==
    /\ HasReturned
    /\ EventsOf("scan_local") # {}
    /\ ServiceDown
    /\ Len(test_cases) = MaxTests
    /\ \A i \in 1..Len(test_cases) : ZeroExit(test_cases[i])
    /\ Cardinality(EventsOf("grade_response")) = MaxTests

-----------------------------------------------------------------------------
(* The files a grade request reads (specification SpecPath).  The ids of   *)
(* SpecGrade are plain names; here an id is any string, with the "/" and   *)
(* ".." a request body may put in it, and a path is the sequence of its    *)
(* components.                                                             *)

\* a component of a path: a directory name, "..", or a file {name}.txt
D(name) == [name |-> name, ext |-> ""]

F(name) == [name |-> name, ext |-> "txt"]

\* the id `text` of a request body: whether it starts with "/", and the
\* names between its "/"
Id(text, abs, names) == [text |-> text, abs |-> abs, names |-> names]

\* GRADING_DIR, INPUTS_DIR and OUTPUTS_DIR, lines 33-35
GRADING_DIR == << D("grading") >>

INPUTS_DIR == GRADING_DIR \o << D("inputs") >>

OUTPUTS_DIR == GRADING_DIR \o << D("outputs") >>

\* base / id as pathlib joins them: an absolute right operand replaces the
\* left one, and ".." stays in the path as a component
Join(base, abs, comps) == IF abs THEN comps ELSE base \o comps

\* base / problem_id / f"{test_id}.txt", lines 123-124
TestFile(base, problem_id, test_id) ==
    Join(Join(base, problem_id.abs, [i \in 1..Len(problem_id.names) |->
                                        D(problem_id.names[i])]),
         test_id.abs,
         [i \in 1..Len(test_id.names) |->
             IF i = Len(test_id.names) THEN F(test_id.names[i])
             ELSE D(test_id.names[i])])

\* the directories of a tree of files: the paths above its files
DirsOf(files) ==
    UNION { { SubSeq(f, 1, n) : n \in 0..(Len(f) - 1) } : f \in files }

\* the file system resolves a path component by component from the root: a
\* name must be there, ".." goes up from a directory that is there (and stays
\* at the root).  The result is the place reached, or <<D("nowhere")>>.
RECURSIVE Resolve(_, _, _)
Resolve(files, at, path) ==
    IF Len(path) = 0 THEN at
    ELSE IF at \notin DirsOf(files) THEN << D("nowhere") >>
    ELSE IF path[1] = D("..")
    THEN Resolve(files, IF Len(at) = 0 THEN at ELSE SubSeq(at, 1, Len(at) - 1),
                 Tail(path))
    ELSE IF Append(at, path[1]) \in files \cup DirsOf(files)
    THEN Resolve(files, Append(at, path[1]), Tail(path))
    ELSE << D("nowhere") >>

\* the problems and tests of the protected tree
PathProblems == {"pastele", "rez", "sum"}

PathTests == {"1", "2"}

\* the protected tree: inputs/{problem}/{test}.txt and the same under outputs
TreeOf(problems) ==
    { INPUTS_DIR \o << D(p), F(t) >> : p \in problems, t \in PathTests }
    \cup { OUTPUTS_DIR \o << D(p), F(t) >> : p \in problems, t \in PathTests }

PathTrees == { TreeOf(P) : P \in (SUBSET PathProblems) \ {{}} }

\* the problem ids and test ids of the requests
PathProblemIds ==
    { Id("pastele", FALSE, <<"pastele">>), Id("rez", FALSE, <<"rez">>),
      Id("sum", FALSE, <<"sum">>), Id("nosuch", FALSE, <<"nosuch">>),
      Id("..", FALSE, <<"..">>),
      Id("pastele/../sum", FALSE, <<"pastele", "..", "sum">>),
      Id("/grading/inputs/rez", TRUE, <<"grading", "inputs", "rez">>) }

PathTestIds ==
    { Id("1", FALSE, <<"1">>), Id("2", FALSE, <<"2">>), Id("3", FALSE, <<"3">>),
      Id("../rez/1", FALSE, <<"..", "rez", "1">>),
      Id("../sum/2", FALSE, <<"..", "sum", "2">>),
      Id("../../outputs/pastele/1", FALSE, <<"..", "..", "outputs", "pastele", "1">>),
      Id("/grading/outputs/rez/1", TRUE, <<"grading", "outputs", "rez", "1">>) }

\* a grade request with its ids, and how far grade has come with it: the
\* paths built, the files found and read, the checker looked up
PathRequest(problem_id, test_id) == [problem_id |-> problem_id, test_id |-> test_id]

Reads(stage, status, input_file, output_file, input_read, output_read, checker) ==
    [stage |-> stage, status |-> status, input_file |-> input_file,
     output_file |-> output_file, input_read |-> input_read,
     output_read |-> output_read, checker |-> checker]

Nowhere == << D("nowhere") >>

InitPath ==
    /\ store \in PathTrees
    /\ request \in { PathRequest(p, t) : p \in PathProblemIds, t \in PathTestIds }
    /\ response = Reads("arrived", 0, <<>>, <<>>, Nowhere, Nowhere, "")
    /\ IdleRunner

\* lines 122-124: the two paths are built from the ids of the request
BuildPaths ==
    /\ response.stage = "arrived"
    /\ response' = [response EXCEPT
                       !.stage = "built",
                       !.input_file = TestFile(INPUTS_DIR, request.problem_id,
                                               request.test_id),
                       !.output_file = TestFile(OUTPUTS_DIR, request.problem_id,
                                                request.test_id)]
    /\ UNCHANGED <<request, store>>
    /\ UNCHANGED runnerVars

\* lines 127-141: input_file.exists() and output_file.exists(), 404 if not
CheckExists ==
    /\ response.stage = "built"
    /\ LET i == Resolve(store, <<>>, response.input_file)
           o == Resolve(store, <<>>, response.output_file)
       IN  response' = IF i \in store /\ o \in store
                       THEN [response EXCEPT !.stage = "found"]
                       ELSE [response EXCEPT !.stage = "answered", !.status = 404]
    /\ UNCHANGED <<request, store>>
    /\ UNCHANGED runnerVars

\* lines 144-165: the files are read, the checker is looked up and called
ReadAndCheck ==
    /\ response.stage = "found"
    /\ response' = [response EXCEPT
                       !.stage = "answered",
                       !.status = 200,
                       !.input_read = Resolve(store, <<>>, response.input_file),
                       !.output_read = Resolve(store, <<>>, response.output_file),
                       !.checker = get_checker(request.problem_id.text)]
    /\ UNCHANGED <<request, store>>
    /\ UNCHANGED runnerVars

NextPath ==
    \/ BuildPaths
    \/ CheckExists
    \/ ReadAndCheck

SpecPath == InitPath /\ [][NextPath]_vars

\* the request was graded: its files were read and a checker was called
Graded == response.stage = "answered" /\ response.status = 200

\* C30: path confinement.  For every problem_id and test_id, those holding
\* "/" or ".." included, the files a grade request reads are a test's input in
\* inputs/{problem}/ and the same test's expected output in outputs/{problem}/
\* of one problem, the one the request names, and the checker called is the
\* checker of that problem.
C30_PathConfinement ==
    Graded =>
        \E p \in PathProblems, t \in PathTests :
            /\ request.problem_id.text = p
            /\ response.input_read = INPUTS_DIR \o << D(p), F(t) >>
            /\ response.output_read = OUTPUTS_DIR \o << D(p), F(t) >>
            /\ response.checker = get_checker(p)

=============================================================================
